---- MODULE Spec2Model ----
(***************************************************************************)
(* Reconciliation of a manual into a styled document: the text reconciler  *)
(* (sync_latex_to_docx.py: sync_dynamic_from_spec in token mode,           *)
(* legacy_main in legacy mode) and the figure reconciler                   *)
(* (sync_latex_images_to_docx.py: sync_dynamic in token mode, sync_legacy  *)
(* in legacy mode).                                                        *)
(*                                                                         *)
(* A text is a sequence of atoms.  Each atom stands for a piece of text    *)
(* whose characters all fall in one class of the token regular expression: *)
(*   "B"   the literal MANUAL_BLOCK:   (every character is an id character)*)
(*   "F"   the literal MANUAL_FIG:     (every character is an id character)*)
(*   "a" "b" "Figure" "." and digit strings: id characters [A-Za-z0-9_.:-]  *)
(*   "sp"  white space                                                     *)
(*   "x" "y"  characters outside the id class that are not white space     *)
(*   "L"   the literal [[          "R"   the literal ]]                    *)
(* Legacy mode adds single digits, the section titles of the manual (one   *)
(* atom per title, e.g. "Flow A: Search for a Video") and their lower-case *)
(* alphanumeric forms (e.g. "flowasearchforavideo"); no title is part of   *)
(* another, so a text contains another exactly when its atoms do.          *)
(***************************************************************************)
EXTENDS Integers, Sequences, FiniteSets, TLC

VARIABLES docx, spec, tex, files, origin, prev, out, report, last, call, ret

\* docx    the target document on disk: its body, numbering definitions and styles
\* spec    the manual specification (read only)
\* tex     what the legacy parsers read from the typesetting source (read only)
\* files   the image files that exist on disk (read only)
\* origin  the target document as it was before the first run
\* prev    the document the last run loaded
\* out     the document the last run built in memory
\* report  the metrics the last run printed
\* last    the last run: its mode, whether it saved its document, whether it aborted
\* call    a function of the program and the arguments it is applied to
\* ret     what that function returned
vars == <<docx, spec, tex, files, origin, prev, out, report, last, call, ret>>

(***************************************************************************)
(* Bounds of the model.                                                    *)
(***************************************************************************)
MaxParas == 2
MaxItems == 2
MaxCols == 2
MaxRows == 2
\* a run starts only on a body of at most MaxBody elements
MaxBody == 8
\* the helper functions: atoms of a title, elements of a body, items, definitions
MaxTitle == 3
MaxHeadings == 3
MaxTexItems == 3
MaxDefs == 2
\* scenes of a capture manifest
MaxScenes == 2
\* calls of ensure_num_id_for_format on one document
MaxCalls == 3

(***************************************************************************)
(* Sequence helpers.                                                       *)
(***************************************************************************)
SeqsUpTo(S, n) == UNION {[1..k -> S] : k \in 0..n}

RECURSIVE SumSeq(_)
SumSeq(ns) == IF ns = <<>> THEN 0 ELSE Head(ns) + SumSeq(Tail(ns))

MaxOf(S, default) == IF S = {} THEN default ELSE CHOOSE m \in S : \A k \in S : k <= m

(***************************************************************************)
(* Texts and the token regular expressions.                                *)
(***************************************************************************)
NonIdAtoms == {"sp", "x", "y", "L", "R"}

IsIdChar(c) == c \notin NonIdAtoms

\* str.strip(): white space removed at both ends
RECURSIVE LStrip(_)
LStrip(s) == IF s # <<>> /\ Head(s) = "sp" THEN LStrip(Tail(s)) ELSE s

RECURSIVE RStrip(_)
RStrip(s) ==
    IF s # <<>> /\ s[Len(s)] = "sp" THEN RStrip(SubSeq(s, 1, Len(s) - 1)) ELSE s

Strip(s) == RStrip(LStrip(s))

AllIdChars(s) == \A i \in 1..Len(s) : IsIdChar(s[i])

\* (?:\[\[)?LITERAL([A-Za-z0-9_.:-]+)(?:\]\])? matched against the whole text:
\* the id (group 1), or <<>> when the text does not match
FullMatchId(s, literal) ==
    LET s1 == IF s # <<>> /\ Head(s) = "L" THEN Tail(s) ELSE s
        s2 == IF s1 # <<>> /\ s1[Len(s1)] = "R" THEN SubSeq(s1, 1, Len(s1) - 1) ELSE s1
    IN  IF Len(s2) >= 2 /\ Head(s2) = literal /\ AllIdChars(Tail(s2))
        THEN Tail(s2)
        ELSE <<>>

\* positions where the pattern matches: the literal followed by an id character
MatchStarts(s, literal) ==
    {i \in 1..(Len(s) - 1) : s[i] = literal /\ IsIdChar(s[i + 1])}

SearchMatches(s, literal) == MatchStarts(s, literal) # {}

\* re.search(...).group(1): the id of the leftmost match, taken greedily
SearchId(s, literal) ==
    LET i == CHOOSE k \in MatchStarts(s, literal) :
                 \A j \in MatchStarts(s, literal) : k <= j
        stops == {j \in (i + 1)..Len(s) : ~IsIdChar(s[j])}
        e == IF stops = {} THEN Len(s)
             ELSE (CHOOSE j \in stops : \A k \in stops : j <= k) - 1
    IN  SubSeq(s, i + 1, e)

block_token_re_fullmatch(s) == FullMatchId(s, "B")

fig_token_re_fullmatch(s) == FullMatchId(s, "F")

block_token_re_search(s) == SearchMatches(s, "B")

(***************************************************************************)
(* Body elements of the document tree.                                     *)
(***************************************************************************)
\* num is the text of a leading run of character style SectionNumber (<<>>: no
\* such run), text the text of the runs after it
Para(t) == [kind |-> "p", text |-> t, numId |-> -1, pic |-> "", style |-> "",
            jc |-> "", rows |-> <<>>, num |-> <<>>]

ListPara(t, n) == [Para(t) EXCEPT !.numId = n]

Tbl(rs) == [kind |-> "tbl", text |-> <<>>, numId |-> -1, pic |-> "", style |-> "",
            jc |-> "", rows |-> rs, num |-> <<>>]

IsPara(e) == e.kind = "p"

\* Paragraph.text setter: every run is dropped (an embedded drawing with them),
\* the paragraph properties stay
SetText(p, t) == [p EXCEPT !.text = t, !.pic = "", !.num = <<>>]

(***************************************************************************)
(* Numbering definitions.                                                  *)
(***************************************************************************)
NumIds(nums) == {nums[i].nid : i \in 1..Len(nums)}

AbsIds(abs) == {abs[i].aid : i \in 1..Len(abs)}

DefaultAbstractNumId == 1999
DefaultNumId == 999

\* a variant: the default whatever the ids are
max_attr_default(ids, default) == default

max_attr_int(ids, default) == MaxOf({v \in ids : v >= 0}, default)

\* a bullet definition is reusable only with a visible glyph
UsableBlank(a, num_fmt) == a.fmt = num_fmt

Usable(a, num_fmt) ==
    /\ a.fmt = num_fmt
    /\ (num_fmt = "bullet" => a.lvl_text \notin {"", "sp"})

FirstIndex(S) == CHOOSE i \in S : \A j \in S : i <= j

NewAbstract(aid, num_fmt) ==
    [aid |-> aid, fmt |-> num_fmt,
     lvl_text |-> IF num_fmt = "decimal" THEN "%1." ELSE "bullet_glyph"]

NewNum(nid, aid, restart, num_fmt) ==
    [nid |-> nid, abs |-> aid, start |-> IF restart /\ num_fmt = "decimal" THEN 1 ELSE 0]

\* the instances a non-restart call may reuse
ReusedNum(nums, target, restart) ==
    IF restart THEN {} ELSE {i \in 1..Len(nums) : nums[i].abs = target}

ensure_num_id_for_format(numbering, num_fmt, restart) ==
    LET abs == numbering.abs
        nums == numbering.nums
        cands == {i \in 1..Len(abs) : Usable(abs[i], num_fmt)}
        new_abs_id == max_attr_int(AbsIds(abs), DefaultAbstractNumId) + 1
        target == IF cands # {} THEN abs[FirstIndex(cands)].aid ELSE new_abs_id
        abs1 == IF cands # {} THEN abs ELSE Append(abs, NewAbstract(new_abs_id, num_fmt))
        reuse == ReusedNum(nums, target, restart)
        new_num_id == max_attr_int(NumIds(nums), DefaultNumId) + 1
    IN  IF reuse # {}
        THEN [numbering |-> [abs |-> abs1, nums |-> nums],
              id |-> nums[FirstIndex(reuse)].nid]
        ELSE [numbering |-> [abs |-> abs1,
                             nums |-> Append(nums, NewNum(new_num_id, target, restart, num_fmt))],
              id |-> new_num_id]

\* set_paragraph_numpr: any numbering reference is replaced by (level 0, num_id)
set_paragraph_numpr(p, num_id) == [p EXCEPT !.numId = num_id]

(***************************************************************************)
(* The manual specification: the blocks of its sections, in order.         *)
(***************************************************************************)
Block(id, type) ==
    [block_id |-> id, type |-> type, text |-> <<>>, items |-> <<>>, columns |-> <<>>,
     rows |-> <<>>, figure_id |-> <<>>, caption |-> <<>>, image_rel |-> ""]

NoBlock == Block(<<>>, "")

\* block_map: the last block of the spec with a given non-empty block_id
block_map_get(sp, id) ==
    LET hits == {i \in 1..Len(sp) : sp[i].block_id # <<>> /\ sp[i].block_id = id}
    IN  IF hits = {} THEN NoBlock ELSE sp[MaxOf(hits, 0)]

\* figure_map: the last figure block of the spec with a given non-empty figure_id
figure_map_get(sp, id) ==
    LET hits == {i \in 1..Len(sp) :
                    sp[i].type = "figure" /\ sp[i].figure_id # <<>> /\ sp[i].figure_id = id}
    IN  IF hits = {} THEN NoBlock ELSE sp[MaxOf(hits, 0)]

(***************************************************************************)
(* sync_dynamic_from_spec: main pass.                                      *)
(***************************************************************************)
DefaultColumns == << <<"Column", "sp", "1">>, <<"Column", "sp", "2">>, <<"Column", "sp", "3">> >>

TableColumns(block) == IF block.columns = <<>> THEN DefaultColumns ELSE block.columns

\* one data row: a cell per column, the row's value or empty
TableRowUntruncated(row, cols) ==
    [idx \in 1..(IF Len(row) > Len(cols) THEN Len(row) ELSE Len(cols)) |->
        IF idx <= Len(row) THEN row[idx] ELSE <<>>]

TableRow(row, cols) ==
    [idx \in 1..Len(cols) |-> IF idx <= Len(row) THEN row[idx] ELSE <<>>]

BuildTable(block) ==
    LET cols == TableColumns(block)
    IN  Tbl(<<cols>> \o [r \in 1..Len(block.rows) |-> TableRow(block.rows[r], cols)])

\* a variant: the token paragraph is cleared and every item follows in a new paragraph
ListParagraphsAfterToken(p, items, num_id) ==
    <<SetText(p, <<>>)>> \o [i \in 1..Len(items) |-> ListPara(items[i], num_id)]

\* the paragraphs of a list block: the token paragraph holds the first item, the
\* other items follow it in new paragraphs, all with the numbering reference
ListParagraphs(p, items, num_id) ==
    [i \in 1..Len(items) |->
        IF i = 1 THEN set_paragraph_numpr(SetText(p, items[1]), num_id)
        ELSE ListPara(items[i], num_id)]

\* the numbering instance of a list block: the shared bullet instance, or a new
\* restart instance per numbered block
ListNumIdShared(numbering, btype, bullet_num_id) ==
    IF btype = "numbered_list"
    THEN ensure_num_id_for_format(numbering, "decimal", FALSE)
    ELSE [numbering |-> numbering, id |-> bullet_num_id]

ListNumId(numbering, btype, bullet_num_id) ==
    IF btype = "numbered_list"
    THEN ensure_num_id_for_format(numbering, "decimal", TRUE)
    ELSE [numbering |-> numbering, id |-> bullet_num_id]

\* one iteration of the main loop on paragraph p; st is the run's state so far:
\* the body built up to p, the numbering definitions and the two counters
\* p.text = "" with changes += 1
ClearToken(st, p) ==
    [st EXCEPT !.body = Append(@, SetText(p, <<>>)), !.changes = @ + 1]

SkipTokenUncounted(st, p) ==
    [st EXCEPT !.body = Append(@, SetText(p, <<>>)), !.changes = @ + 1]

\* p.text = "" with skipped += 1 and changes += 1
SkipToken(st, p) ==
    [st EXCEPT !.body = Append(@, SetText(p, <<>>)), !.skipped = @ + 1, !.changes = @ + 1]

MainStep(sp, st, p, bullet_num_id) ==
    LET text == Strip(p.text)
        id == block_token_re_fullmatch(text)
        block == block_map_get(sp, id)
        btype == block.type
    IN  IF fig_token_re_fullmatch(text) # <<>> \/ id = <<>>
        THEN [st EXCEPT !.body = Append(@, p)]
        ELSE IF block = NoBlock
        THEN SkipToken(st, p)
        ELSE IF btype = "paragraph"
        THEN [st EXCEPT !.body = Append(@, SetText(p, block.text)), !.changes = @ + 1]
        ELSE IF btype \in {"bullet_list", "numbered_list"}
        THEN IF block.items = <<>>
             THEN ClearToken(st, p)
             ELSE LET n == ListNumId(st.numbering, btype, bullet_num_id)
                  IN  [st EXCEPT !.body = @ \o ListParagraphs(p, block.items, n.id),
                                 !.numbering = n.numbering,
                                 !.changes = @ + Len(block.items)]
        ELSE IF btype = "table"
        THEN [st EXCEPT !.body = Append(@, BuildTable(block)), !.changes = @ + 1]
        ELSE IF btype = "figure"
        THEN ClearToken(st, p)
        ELSE SkipToken(st, p)

\* the main loop over the paragraphs the body held when the loop started; what a
\* paragraph inserts goes right after it, so the body is rebuilt element by element
RECURSIVE MainPass(_, _, _, _)
MainPass(sp, st, rest, bullet_num_id) ==
    IF rest = <<>> THEN st
    ELSE MainPass(sp,
                  IF IsPara(Head(rest)) THEN MainStep(sp, st, Head(rest), bullet_num_id)
                  ELSE [st EXCEPT !.body = Append(@, Head(rest))],
                  Tail(rest), bullet_num_id)

(***************************************************************************)
(* sync_dynamic_from_spec: cleanup pass over the body's paragraphs.        *)
(***************************************************************************)
CleanupNone(st) == st

Cleanup(st) ==
    LET hit(e) == IsPara(e) /\ block_token_re_search(Strip(e.text))
    IN  [st EXCEPT
            !.body = [i \in 1..Len(st.body) |->
                         IF hit(st.body[i]) THEN SetText(st.body[i], <<>>) ELSE st.body[i]],
            !.changes = @ + Cardinality({i \in 1..Len(st.body) : hit(st.body[i])})]

\* the whole reconciliation of document d against spec sp
BlockSync(sp, d) ==
    LET b == ensure_num_id_for_format(d.numbering, "bullet", FALSE)
        st0 == [body |-> <<>>, numbering |-> b.numbering, changes |-> 0, skipped |-> 0]
    IN  Cleanup(MainPass(sp, st0, d.body, b.id))

BlockOutput(d, r) == [d EXCEPT !.body = r.body, !.numbering = r.numbering]

\* a run that ends in an exception before it writes: nothing is printed or saved
\* (the variant opens the output for writing first and leaves it truncated)
AbortedTruncated(mode) ==
    /\ prev' = docx
    /\ out' = docx
    /\ report' = [error |-> TRUE]
    /\ docx' = [docx EXCEPT !.body = <<>>, !.archive = "unreadable"]
    /\ last' = [mode |-> mode, saved |-> FALSE, aborted |-> TRUE]

Aborted(mode) ==
    /\ prev' = docx
    /\ out' = docx
    /\ report' = [error |-> TRUE]
    /\ docx' = docx
    /\ last' = [mode |-> mode, saved |-> FALSE, aborted |-> TRUE]

\* Document(...) raises on an archive it cannot read, doc.paragraphs on a
\* document without a body
sync_dynamic_from_spec(dry_run) ==
    /\ IF docx.archive # "ok"
       THEN Aborted("blocks")
       ELSE LET r == BlockSync(spec, docx)
            IN  /\ prev' = docx
                /\ out' = BlockOutput(docx, r)
                /\ report' = [changes |-> r.changes, skipped_blocks |-> r.skipped]
                /\ docx' = IF dry_run THEN docx ELSE out'
                /\ last' = [mode |-> "blocks", saved |-> ~dry_run, aborted |-> FALSE]
    /\ UNCHANGED <<spec, tex, files, origin, call, ret>>

(***************************************************************************)
(* sync_dynamic: the figure embedder in token mode.                        *)
(***************************************************************************)
\* token_re.search on the trimmed text: the id found, or <<>> without a match
token_re_search_id(s) == IF SearchMatches(s, "F") THEN SearchId(s, "F") ELSE <<>>

FigureLabel(n) == <<"Figure", "sp", ToString(n), ".", "sp">>

\* the first of ImageCaption, Caption the document defines; none leaves the default
CaptionStyle(styles) ==
    IF "ImageCaption" \in styles THEN "ImageCaption"
    ELSE IF "Caption" \in styles THEN "Caption" ELSE ""

\* clear_paragraph, centred alignment and add_picture
ImagePara(image_rel) == [Para(<<>>) EXCEPT !.pic = image_rel, !.jc = "center"]

CaptionPara(n, caption, styles) ==
    [Para(FigureLabel(n) \o caption) EXCEPT !.jc = "center", !.style = CaptionStyle(styles)]

\* the number the next caption carries
CaptionNumberStuck(replaced) == 1

CaptionNumber(replaced) == replaced + 1

FigStep(sp, fs, st, p, styles) ==
    LET fig_id == token_re_search_id(Strip(p.text))
        fig == figure_map_get(sp, fig_id)
    IN  IF fig_id = <<>>
        THEN [st EXCEPT !.body = Append(@, p)]
        ELSE IF fig = NoBlock
        THEN [st EXCEPT !.body = Append(@, SetText(p, <<>>))]
        ELSE IF fig.image_rel \notin fs
        THEN [st EXCEPT !.body = Append(@, SetText(p, <<>>))]
        ELSE [st EXCEPT !.body = @ \o <<ImagePara(fig.image_rel),
                                        CaptionPara(CaptionNumber(st.replaced), fig.caption, styles)>>,
                        !.replaced = @ + 1]

RECURSIVE FigPass(_, _, _, _, _)
FigPass(sp, fs, st, rest, styles) ==
    IF rest = <<>> THEN st
    ELSE FigPass(sp, fs,
                 IF IsPara(Head(rest)) THEN FigStep(sp, fs, st, Head(rest), styles)
                 ELSE [st EXCEPT !.body = Append(@, Head(rest))],
                 Tail(rest), styles)

FigSync(sp, fs, d) == FigPass(sp, fs, [body |-> <<>>, replaced |-> 0], d.body, d.styles)

FigOutput(d, r) == [d EXCEPT !.body = r.body]

sync_dynamic ==
    /\ Len(docx.body) <= MaxBody
    /\ IF docx.archive # "ok"
       THEN Aborted("figures")
       ELSE LET r == FigSync(spec, files, docx)
            IN  /\ prev' = docx
                /\ out' = FigOutput(docx, r)
                /\ report' = [inserted_blocks |-> r.replaced]
                /\ docx' = out'
                /\ last' = [mode |-> "figures", saved |-> TRUE, aborted |-> FALSE]
    /\ UNCHANGED <<spec, tex, files, origin, call, ret>>

(***************************************************************************)
(* Inputs: documents, specs and image files the runs start from.           *)
(***************************************************************************)
IdA == <<"a">>
IdB == <<"b">>

Token(id) == <<"B">> \o id
FigToken(id) == <<"F">> \o id

NoNumbering == [abs |-> <<>>, nums |-> <<>>]

\* a visible bullet and a decimal definition, one instance each
PlainNumbering ==
    [abs |-> << [aid |-> 0, fmt |-> "bullet", lvl_text |-> "bullet_glyph"],
                [aid |-> 1, fmt |-> "decimal", lvl_text |-> "%1."] >>,
     nums |-> << [nid |-> 1, abs |-> 0, start |-> 0], [nid |-> 2, abs |-> 1, start |-> 0] >>]

\* a bullet definition with a blank glyph, a decimal one whose instance restarts
BlankBulletNumbering ==
    [abs |-> << [aid |-> 3, fmt |-> "bullet", lvl_text |-> "sp"],
                [aid |-> 1, fmt |-> "decimal", lvl_text |-> "%1."] >>,
     nums |-> << [nid |-> 1000, abs |-> 3, start |-> 0], [nid |-> 4, abs |-> 1, start |-> 1] >>]

Numberings == {NoNumbering, PlainNumbering, BlankBulletNumbering}

InitialReport == [changes |-> 0, skipped_blocks |-> 0]

\* a document whose archive opens and whose document part has a body
Docx(body, numbering, styles) ==
    [body |-> body, numbering |-> numbering, styles |-> styles, archive |-> "ok"]

\* a typesetting source without lists, tables or screenshots
NoTex == [lists |-> <<>>, tables |-> <<>>, enums |-> <<>>, shots |-> <<>>]

NoCall == [fn |-> "none"]

\* the files on disk before the first run (document, spec or source, images)
Loaded(d, sp, tx, fs) ==
    /\ docx = d
    /\ spec = sp
    /\ tex = tx
    /\ files = fs
    /\ origin = d
    /\ prev = d
    /\ out = d
    /\ report = InitialReport
    /\ last = [mode |-> "none", saved |-> FALSE, aborted |-> FALSE]

StartRun(d, sp, tx, fs) ==
    /\ Loaded(d, sp, tx, fs)
    /\ call = NoCall
    /\ ret = NoCall

Start(d, sp, fs) == StartRun(d, sp, NoTex, fs)

\* paragraph texts of the target document
BlockDocTexts ==
    { <<"x">>, Token(IdA), Token(IdB), <<"sp", "L">> \o Token(IdA) \o <<"R", "sp">>,
      <<"x">> \o Token(IdA), FigToken(IdA) }

ExistingTable == Tbl(<< << <<"y">> >> >>)

BlockDocElems(numbering) ==
    {Para(t) : t \in BlockDocTexts}
        \cup {ListPara(<<"y">>, n) : n \in NumIds(numbering.nums)}
        \cup {ExistingTable}

ItemTexts == { <<"x">>, Token(IdA) }

ParagraphBlock(id, t) == [Block(id, "paragraph") EXCEPT !.text = t]

ListBlock(id, type, items) == [Block(id, type) EXCEPT !.items = items]

TableBlock(id, cols, rows) == [Block(id, "table") EXCEPT !.columns = cols, !.rows = rows]

FigureBlock(id, fid, caption, image_rel) ==
    [Block(id, "figure") EXCEPT !.figure_id = fid, !.caption = caption,
                                !.image_rel = image_rel]

Blocks ==
    {ParagraphBlock(IdA, t) : t \in ItemTexts}
        \cup {ListBlock(IdA, ty, is) : ty \in {"bullet_list", "numbered_list"},
                                       is \in SeqsUpTo(ItemTexts, MaxItems)}
        \cup {TableBlock(IdA, << <<"x">> >>, << <<Token(IdA), <<"y">> >> >>),
              TableBlock(IdA, <<>>, << << <<"x">> >> >>)}
        \cup {FigureBlock(IdA, IdA, <<"x">>, "a.png"), Block(IdA, "callout")}

Init ==
    \E sp \in {<<b>> : b \in Blocks}, n \in Numberings :
        \E body \in SeqsUpTo(BlockDocElems(n), MaxParas) :
            Start(Docx(body, n, {}), sp, {})

Next == \E dry_run \in BOOLEAN : sync_dynamic_from_spec(dry_run)

Spec == Init /\ [][Next]_vars

(***************************************************************************)
(* Table blocks of every shape: each cell names its row and column.        *)
(***************************************************************************)
ShapedColumns(nc) == [c \in 1..nc |-> <<"y", ToString(c)>>]

ShapedRows(lens) == [r \in 1..Len(lens) |-> [c \in 1..lens[r] |-> <<"x", ToString(r), ToString(c)>>]]

TableBlocks ==
    {TableBlock(IdA, ShapedColumns(nc), ShapedRows(lens)) :
        nc \in 0..MaxCols, lens \in SeqsUpTo(0..(MaxCols + 1), MaxRows)}

InitTable ==
    \E b \in TableBlocks :
        \E body \in SeqsUpTo({Para(<<"x">>), Para(Token(IdA))}, MaxParas) :
            Start(Docx(body, PlainNumbering, {}), <<b>>, {})

TableSpec == InitTable /\ [][Next]_vars

(***************************************************************************)
(* Both token passes over documents that hold figure tokens.               *)
(***************************************************************************)
FigDocTexts ==
    { <<"x">>, FigToken(IdA), FigToken(IdB), FigToken(<<"a", "b">>),
      <<"x">> \o FigToken(IdA), Token(IdA) \o <<"sp">> \o FigToken(IdA), Token(IdA) }

FigureA == FigureBlock(<<"f", "a">>, IdA, <<"x">>, "a.png")

FigureB == FigureBlock(IdB, IdB, <<"y">>, "b.png")

FigSpecs ==
    { <<FigureA, FigureB>>,
      <<FigureA, FigureB, ParagraphBlock(IdA, <<"y">>)>> }

InitFig ==
    \E sp \in FigSpecs, fs \in SUBSET {"a.png", "b.png"}, styles \in {{}, {"Caption"}} :
        \E body \in SeqsUpTo({Para(t) : t \in FigDocTexts}, MaxParas + 1) :
            Start(Docx(body, PlainNumbering, styles), sp, fs)

FigNext ==
    \/ sync_dynamic
    \/ \E dry_run \in BOOLEAN : sync_dynamic_from_spec(dry_run)

FigSpec == InitFig /\ [][FigNext]_vars

(***************************************************************************)
(* Both token passes with a figure whose caption text itself reads         *)
(* MANUAL_FIG:a.                                                           *)
(***************************************************************************)
FigureQuoted == FigureBlock(<<"f", "a">>, IdA, <<"x", "sp">> \o FigToken(IdA), "a.png")

InitCaption ==
    \E fs \in SUBSET {"a.png", "b.png"}, styles \in {{}, {"Caption"}} :
        \E body \in SeqsUpTo({Para(<<"x">>), Para(FigToken(IdA)), Para(FigToken(IdB)),
                              Para(FigToken(<<"a", "b">>))}, MaxParas) :
            Start(Docx(body, PlainNumbering, styles), <<FigureQuoted, FigureB>>, fs)

CaptionSpec == InitCaption /\ [][FigNext]_vars

(***************************************************************************)
(* Legacy mode: titles and the two canonical functions.                    *)
(***************************************************************************)
Digits == {"0", "1", "2", "3", "4", "5", "6", "7", "8", "9"}

\* the headings legacy mode knows, with the level and number it gives them
Targets ==
    << [title |-> "Scope", level |-> 1, num |-> <<"1">>],
       [title |-> "Prerequisites", level |-> 1, num |-> <<"2">>],
       [title |-> "Home Page Overview", level |-> 1, num |-> <<"3">>],
       [title |-> "Links and Buttons Mapping", level |-> 1, num |-> <<"4">>],
       [title |-> "Top Navigation", level |-> 2, num |-> <<"4", ".", "1">>],
       [title |-> "Left Navigation (Common Signed-out Items)", level |-> 2,
        num |-> <<"4", ".", "2">>],
       [title |-> "Home Feed Video Card", level |-> 2, num |-> <<"4", ".", "3">>],
       [title |-> "Example Task Flows", level |-> 1, num |-> <<"5">>],
       [title |-> "Flow A: Search for a Video", level |-> 2, num |-> <<"5", ".", "1">>],
       [title |-> "Flow B: Open a Video Watch Page", level |-> 2, num |-> <<"5", ".", "2">>],
       [title |-> "Maintenance Notes", level |-> 1, num |-> <<"6">>],
       [title |-> "Build", level |-> 1, num |-> <<"7">>] >>

\* the atoms made of lower-case letters only
LowerWords ==
    {"scope", "prerequisites", "homepageoverview", "linksandbuttonsmapping",
     "topnavigation", "leftnavigationcommonsignedoutitems", "homefeedvideocard",
     "exampletaskflows", "flowasearchforavideo", "flowbopenavideowatchpage",
     "maintenancenotes", "build", "figure", "column", "manualblock", "manualfig",
     "a", "b", "f", "text", "bf", "url"}

\* text.lower() with every character outside [a-z0-9] removed, atom by atom
\* ("": nothing of the atom is left)
LowerAlnum(c) ==
    CASE c = "Scope" -> "scope"
      [] c = "Prerequisites" -> "prerequisites"
      [] c = "Home Page Overview" -> "homepageoverview"
      [] c = "Links and Buttons Mapping" -> "linksandbuttonsmapping"
      [] c = "Top Navigation" -> "topnavigation"
      [] c = "Left Navigation (Common Signed-out Items)" -> "leftnavigationcommonsignedoutitems"
      [] c = "Home Feed Video Card" -> "homefeedvideocard"
      [] c = "Example Task Flows" -> "exampletaskflows"
      [] c = "Flow A: Search for a Video" -> "flowasearchforavideo"
      [] c = "Flow B: Open a Video Watch Page" -> "flowbopenavideowatchpage"
      [] c = "Maintenance Notes" -> "maintenancenotes"
      [] c = "Build" -> "build"
      [] c = "Figure" -> "figure"
      [] c = "Column" -> "column"
      [] c = "B" -> "manualblock"
      [] c = "F" -> "manualfig"
      [] c \in Digits \cup LowerWords -> c
      [] OTHER -> ""

\* re.sub(r"[^a-z0-9]+", "", text.lower())
LowerAlnumText(s) ==
    LET kept == SelectSeq(s, LAMBDA c : LowerAlnum(c) # "")
    IN  [i \in 1..Len(kept) |-> LowerAlnum(kept[i])]

\* the atoms made of letters only
Letters == {"Scope", "Prerequisites", "Build", "Figure", "Column"} \cup LowerWords

\* the first position from i on whose atom is not in S
RECURSIVE SpanEnd(_, _, _)
SpanEnd(s, i, S) == IF i <= Len(s) /\ s[i] \in S THEN SpanEnd(s, i + 1, S) ELSE i

\* (\.\d+)* from position i: the position after the last group
RECURSIVE DotGroupsEnd(_, _)
DotGroupsEnd(s, i) ==
    IF i + 1 <= Len(s) /\ s[i] = "." /\ s[i + 1] \in Digits
    THEN DotGroupsEnd(s, SpanEnd(s, i + 1, Digits))
    ELSE i

\* \d+(\.\d+)*\.?\s* matched at position i: the position after the match, i
\* itself when there is no digit at i
NumberPrefixEnd(s, i) ==
    LET d == SpanEnd(s, i, Digits)
        g == DotGroupsEnd(s, d)
        t == IF g <= Len(s) /\ s[g] = "." THEN g + 1 ELSE g
    IN  IF d = i THEN i ELSE SpanEnd(s, t, {"sp"})

\* the figure reconciler's canonical: the leading enumeration is dropped
fig_canonical(text) ==
    LET s == Strip(text)
    IN  LowerAlnumText(SubSeq(s, NumberPrefixEnd(s, 1), Len(s)))

\* \\[A-Za-z]+ at the head of s: the position after the command name, 0 without one
CommandEnd(s) ==
    IF Len(s) >= 2 /\ s[1] = "\\" /\ s[2] \in Letters THEN SpanEnd(s, 2, Letters) ELSE 0

\* re.sub(r"\\text[A-Za-z]+\{\}", "", text)
RECURSIVE DropEmptyTextCommands(_)
DropEmptyTextCommands(s) ==
    LET e == CommandEnd(s)
    IN  IF s = <<>> THEN <<>>
        ELSE IF e >= 4 /\ s[2] = "text" /\ e + 1 <= Len(s) /\ s[e] = "{" /\ s[e + 1] = "}"
        THEN DropEmptyTextCommands(SubSeq(s, e + 2, Len(s)))
        ELSE <<Head(s)>> \o DropEmptyTextCommands(Tail(s))

\* re.sub(r"\\[A-Za-z]+\{([^}]*)\}", r"\1", text)
RECURSIVE UnwrapCommands(_)
UnwrapCommands(s) ==
    LET e == CommandEnd(s)
        close == {j \in (e + 1)..Len(s) : s[j] = "}"}
    IN  IF s = <<>> THEN <<>>
        ELSE IF e > 0 /\ e <= Len(s) /\ s[e] = "{" /\ close # {}
        THEN SubSeq(s, e + 1, FirstIndex(close) - 1)
                 \o UnwrapCommands(SubSeq(s, FirstIndex(close) + 1, Len(s)))
        ELSE <<Head(s)>> \o UnwrapCommands(Tail(s))

\* the text reconciler's canonical: typesetting commands are unwrapped, digits stay
canonical(text) == LowerAlnumText(UnwrapCommands(DropEmptyTextCommands(text)))

(***************************************************************************)
(* Legacy mode: headings and their resolution.  Positions are counted from *)
(* 0 as in the code: element i of a body is body[i + 1].                   *)
(***************************************************************************)
NoIndex == -1

HeadingStyles == {"Heading 1", "Heading 2", "Heading 3"}

HeadingStyle(level) ==
    CASE level = 1 -> "Heading 1" [] level = 2 -> "Heading 2" [] OTHER -> "Heading 3"

\* a heading paragraph: style, SectionNumber run (with the tab after it) and title
Heading(level, num, title) == [Para(title) EXCEPT !.style = HeadingStyle(level), !.num = num]

\* the level of a paragraph of style "Heading <n>", 0 for any other style
get_heading_level(p) ==
    CASE p.style = "Heading 1" -> 1 [] p.style = "Heading 2" -> 2
      [] p.style = "Heading 3" -> 3 [] OTHER -> 0

is_heading_paragraph(p) == p.style \in HeadingStyles

is_list_paragraph(p) == p.numId # -1

RECURSIVE Concat(_)
Concat(ss) == IF ss = <<>> THEN <<>> ELSE Head(ss) \o Concat(Tail(ss))

\* every w:t below the element, joined and trimmed
paragraph_text(e) ==
    IF IsPara(e) THEN Strip(e.num \o e.text)
    ELSE Strip(Concat([r \in 1..Len(e.rows) |-> Concat(e.rows[r])]))

\* Paragraph.text: the runs' texts, a tab where a run holds one
ParagraphText(p) == IF p.num = <<>> THEN p.text ELSE p.num \o <<"sp">> \o p.text

\* every child but the paragraph properties is removed, one run holds the text
set_paragraph_text(e, text) == [e EXCEPT !.text = text, !.num = <<>>, !.pic = "", !.rows = <<>>]

RECURSIVE SortedSeq(_)
SortedSeq(S) ==
    IF S = {} THEN <<>> ELSE <<FirstIndex(S)>> \o SortedSeq(S \ {FirstIndex(S)})

\* text contains part (Python: part in text)
Contains(text, part) ==
    \E i \in 0..(Len(text) - Len(part)) : SubSeq(text, i + 1, i + Len(part)) = part

\* a dict filled with ks[n] -> hs[n] for the positions hs in order: an entry
\* per key, in the order in which the keys were first set, with the value the
\* key was last set to
DictOf(hs, ks) ==
    LET entries(firsts) ==
            [n \in 1..Len(firsts) |->
                [k |-> ks[firsts[n]],
                 v |-> hs[MaxOf({m \in 1..Len(hs) : ks[m] = ks[firsts[n]]}, 1)]]] \o <<>>
    IN  entries(SortedSeq({n \in 1..Len(hs) : \A m \in 1..(n - 1) : ks[m] # ks[n]}))

top_level_heading_map(body) ==
    LET keyed(hs) ==
            DictOf(hs, [n \in 1..Len(hs) |->
                           canonical(paragraph_text(body[hs[n] + 1]))] \o <<>>)
    IN  keyed(SortedSeq({i \in 0..(Len(body) - 1) :
                            /\ IsPara(body[i + 1])
                            /\ is_heading_paragraph(body[i + 1])
                            /\ paragraph_text(body[i + 1]) # <<>>}))

\* the exact key, else the first key that contains the target or is part of it
find_heading_index_fuzzy(heading_idx, target) ==
    LET exact == {n \in 1..Len(heading_idx) : heading_idx[n].k = target}
        fuzzy == {n \in 1..Len(heading_idx) :
                     Contains(heading_idx[n].k, target) \/ Contains(target, heading_idx[n].k)}
    IN  IF exact # {} THEN heading_idx[FirstIndex(exact)].v
        ELSE IF fuzzy # {} THEN heading_idx[FirstIndex(fuzzy)].v
        ELSE NoIndex

find_heading_index(body, heading) ==
    LET get(cmap, target) ==
            LET exact == {n \in 1..Len(cmap) : cmap[n].k = target}
                fuzzy == {n \in 1..Len(cmap) :
                             Contains(cmap[n].k, target) \/ Contains(target, cmap[n].k)}
            IN  IF exact # {} THEN cmap[FirstIndex(exact)].v
                ELSE IF fuzzy # {} THEN cmap[FirstIndex(fuzzy)].v
                ELSE NoIndex
    IN  get(top_level_heading_map(body), canonical(heading))

\* doc.paragraphs: the paragraphs among the children of the body, in order
Paragraphs(body) == SelectSeq(body, IsPara)

\* where in the body paragraph number j of doc.paragraphs is
ParagraphPosition(body, j) == SortedSeq({i \in 1..Len(body) : IsPara(body[i])})[j + 1]

find_heading_indices(body) ==
    LET keyed(ps, hs) ==
            DictOf(hs, [n \in 1..Len(hs) |->
                           fig_canonical(ParagraphText(ps[hs[n] + 1]))] \o <<>>)
        headings(ps) ==
            keyed(ps, SortedSeq({i \in 0..(Len(ps) - 1) :
                                    /\ get_heading_level(ps[i + 1]) # 0
                                    /\ fig_canonical(ParagraphText(ps[i + 1])) # <<>>}))
    IN  headings(Paragraphs(body))

\* the figure reconciler's section end: the last paragraph before the next
\* heading of the start level or above
find_section_end_index(body, start_idx, start_level) ==
    LET ps == Paragraphs(body)
        stops == {j \in (start_idx + 1)..(Len(ps) - 1) :
                     /\ get_heading_level(ps[j + 1]) # 0
                     /\ get_heading_level(ps[j + 1]) <= start_level}
        end == IF stops = {} THEN Len(ps) - 1 ELSE FirstIndex(stops) - 1
    IN  IF end > start_idx THEN end ELSE start_idx

\* the text reconciler's section end: the next heading of any level, or the
\* length of the body
section_end_index(body, start_idx) ==
    LET stops == {i \in (start_idx + 1)..(Len(body) - 1) :
                     IsPara(body[i + 1]) /\ is_heading_paragraph(body[i + 1])}
    IN  IF stops = {} THEN Len(body) ELSE FirstIndex(stops)

\* body.insert(pos, el) for each of elems, pos counting up
InsertAt(body, pos, elems) ==
    LET at == IF pos > Len(body) THEN Len(body) ELSE pos
    IN  SubSeq(body, 1, at) \o elems \o SubSeq(body, at + 1, Len(body))

insert_after_index(body, idx, elems) == InsertAt(body, idx + 1, elems)

\* the body without the elements at the positions of R
RemoveAt(body, R) ==
    LET pick(keep) == [n \in 1..Len(keep) |-> body[keep[n] + 1]] \o <<>>
    IN  pick(SortedSeq({i \in 0..(Len(body) - 1) : i \notin R}))

(***************************************************************************)
(* Legacy mode: sync_list_under_heading.                                   *)
(***************************************************************************)
\* what a step leaves: the body and the changes it counted
Step(body, changed) == [body |-> body, changed |-> changed, error |-> FALSE]

\* list_idxs: the first run of list paragraphs after the heading and before the
\* next heading (paragraphs before the run are passed over)
ListRun(body, idx) ==
    LET end == section_end_index(body, idx)
        lists == {j \in (idx + 1)..(end - 1) : IsPara(body[j + 1]) /\ is_list_paragraph(body[j + 1])}
        first == FirstIndex(lists)
        breaks == {j \in first..(end - 1) :
                      ~(IsPara(body[j + 1]) /\ is_list_paragraph(body[j + 1]))}
        stop == IF breaks = {} THEN end ELSE FirstIndex(breaks)
    IN  IF idx = NoIndex \/ lists = {} THEN <<>>
        ELSE [n \in 1..(stop - first) |-> first + n - 1] \o <<>>

\* the texts of items written to the elements at the positions idxs, counting
\* the elements whose text was another; an error when a position is past the end
RECURSIVE WriteItems(_, _, _, _)
WriteItems(st, idxs, items, i) ==
    IF i > Len(items) \/ st.error THEN st
    ELSE IF idxs[i] >= Len(st.body) THEN [st EXCEPT !.error = TRUE]
    ELSE WriteItems(
             IF paragraph_text(st.body[idxs[i] + 1]) # items[i]
             THEN [st EXCEPT !.body[idxs[i] + 1] = set_paragraph_text(@, items[i]),
                             !.changed = @ + 1]
             ELSE st,
             idxs, items, i + 1)

\* the grow loop: one copy of the template goes after the run, then list_idxs
\* becomes range(first, first + len(items)) and the loop ends
GrowListOnce(body, run, items) ==
    [body |-> InsertAt(body, run[Len(run)] + 1, <<body[run[1] + 1]>>),
     idxs |-> [n \in 1..Len(items) |-> run[1] + n - 1]]

\* the shrink loop: the last positions of the run are removed
ShrinkList(body, run, items) ==
    [body |-> RemoveAt(body, {run[n] : n \in (Len(items) + 1)..Len(run)}),
     idxs |-> SubSeq(run, 1, Len(items))]

sync_list_under_heading(body, heading, items) ==
    LET write(sized) == WriteItems(Step(sized.body, 0), sized.idxs, items, 1)
        resize(run) ==
            IF run = <<>> THEN Step(body, 0)
            ELSE write(IF Len(run) < Len(items) THEN GrowListOnce(body, run, items)
                       ELSE IF Len(run) > Len(items) THEN ShrinkList(body, run, items)
                       ELSE [body |-> body, idxs |-> run])
        under(idx) ==
            IF items = <<>> \/ idx = NoIndex THEN Step(body, 0)
            ELSE resize(ListRun(body, idx))
    IN  under(find_heading_index(body, heading))

(***************************************************************************)
(* Legacy mode: what parse_tex reads, the steps of a run and templates.    *)
(***************************************************************************)
FlowA == "Flow A: Search for a Video"
FlowB == "Flow B: Open a Video Watch Page"
LeftNavigation == "Left Navigation (Common Signed-out Items)"

\* lists.get(title, []): the items read for the title, none when it has no entry
TexGet(d, title) ==
    LET S == {i \in 1..Len(d) : d[i].heading = title}
    IN  IF S = {} THEN <<>> ELSE d[FirstIndex(S)].items

build_lines ==
    << <<"Run this command in the same directory:">>, <<"latexmk -pdf main.tex">>,
       <<"Output: main.pdf">> >>

\* changed += step(body): r is what the next step makes of the body st.body
\* that the steps before it left; an exception ends the run
Then(st, r) ==
    IF st.error THEN st
    ELSE [body |-> r.body, changed |-> st.changed + r.changed, error |-> r.error]

\* no element: a function that looks for a template returns None
NoTemplate == [Para(<<>>) EXCEPT !.kind = "none"]

find_first_list_template(body) ==
    LET L == {i \in 1..Len(body) : IsPara(body[i]) /\ is_list_paragraph(body[i])}
    IN  IF L = {} THEN NoTemplate ELSE body[FirstIndex(L)]

find_list_template_under_heading(body, heading) ==
    LET under(idx) ==
            LET L == {j \in (idx + 1)..(section_end_index(body, idx) - 1) :
                         IsPara(body[j + 1]) /\ is_list_paragraph(body[j + 1])}
            IN  IF idx = NoIndex \/ L = {} THEN NoTemplate ELSE body[FirstIndex(L) + 1]
    IN  under(find_heading_index(body, heading))

\* the first table of the body
FirstTable(body) ==
    LET T == {i \in 1..Len(body) : ~IsPara(body[i])}
    IN  IF T = {} THEN NoTemplate ELSE body[FirstIndex(T)]

make_heading(text, level) == [Para(text) EXCEPT !.style = HeadingStyle(level)]

\* the first heading of the level with a SectionNumber run, else the first
\* heading of the level
heading_template(body, level) ==
    LET H == {i \in 1..Len(body) : IsPara(body[i]) /\ body[i].style = HeadingStyle(level)}
        N == {i \in H : body[i].num # <<>>}
    IN  IF N # {} THEN body[FirstIndex(N)]
        ELSE IF H # {} THEN body[FirstIndex(H)] ELSE NoTemplate

\* a copy of the template keeps its SectionNumber and tab runs; a run " <text>"
\* takes the place of the others
make_heading_like_template(body, text, level) ==
    LET tpl == heading_template(body, level)
    IN  IF tpl = NoTemplate THEN make_heading(text, level)
        ELSE [tpl EXCEPT !.text = <<"sp">> \o text, !.pic = ""]

clone_list_paragraph_with_text(template, text) == set_paragraph_text(template, text)

make_list_number_paragraph(text, num_id) == ListPara(text, num_id)

(***************************************************************************)
(* Legacy mode: prepare_decimal_num_ids.                                   *)
(***************************************************************************)
DefaultDecimalNumId == 1003
FirstDecimalNumId == 2000

\* abstract_fmt.get(aid): the format of the last definition with the id
abstract_fmt(numbering, aid) ==
    LET S == {i \in 1..Len(numbering.abs) : numbering.abs[i].aid = aid}
    IN  IF S = {} THEN "" ELSE numbering.abs[MaxOf(S, 0)].fmt

decimal_nums(numbering) ==
    SelectSeq(numbering.nums, LAMBDA n : abstract_fmt(numbering, n.abs) = "decimal")

\* the first instance with the id gets a start override of 1
ensure_num_start_override(nums, num_id) ==
    LET S == {j \in 1..Len(nums) : nums[j].nid = num_id}
    IN  IF S = {} THEN nums ELSE [nums EXCEPT ![FirstIndex(S)].start = 1]

\* the numbering ids of the two flows and the numbering definitions to write
\* (as they were when nothing is to be written)
prepare_decimal_num_ids(numbering) ==
    LET dec == decimal_nums(numbering)
        ids == NumIds(numbering.nums)
        new_id == IF ids = {} THEN FirstDecimalNumId ELSE MaxOf(ids, 0) + 1
    IN  IF dec = <<>>
        THEN [flow_a |-> DefaultDecimalNumId, flow_b |-> DefaultDecimalNumId,
              numbering |-> numbering]
        ELSE IF Len(dec) >= 2
        THEN [flow_a |-> dec[1].nid, flow_b |-> dec[2].nid,
              numbering |-> [numbering EXCEPT
                                !.nums = ensure_num_start_override(@, dec[2].nid)]]
        ELSE [flow_a |-> dec[1].nid, flow_b |-> new_id,
              numbering |-> [numbering EXCEPT
                                !.nums = Append(@, [nid |-> new_id, abs |-> dec[1].abs,
                                                    start |-> 1])]]

(***************************************************************************)
(* Legacy mode: tables.                                                    *)
(***************************************************************************)
\* the first table after the heading and before the next heading
FirstTableUnder(body, idx) ==
    LET T == {j \in (idx + 1)..(section_end_index(body, idx) - 1) : ~IsPara(body[j + 1])}
    IN  IF T = {} THEN NoIndex ELSE FirstIndex(T)

\* min(3, len(tcs))
CellCount(row) == IF Len(row) < 3 THEN Len(row) ELSE 3

sync_table_under_heading(body, heading, rows) ==
    LET differs(sized, r, c) == Strip(sized[r][c]) # rows[r][c]
        write(t_idx, table, sized) ==
            Step([body EXCEPT ![t_idx + 1].rows =
                     <<table.rows[1]>> \o
                     [r \in 1..Len(rows) |->
                         [c \in 1..Len(sized[r]) |->
                             IF c <= 3 /\ differs(sized, r, c) THEN rows[r][c]
                             ELSE sized[r][c]]]],
                 Cardinality({rc \in (1..Len(rows)) \X (1..3) :
                                 /\ rc[2] <= CellCount(sized[rc[1]])
                                 /\ differs(sized, rc[1], rc[2])}))
        fit(t_idx, table) ==
            IF Len(table.rows) < 2 THEN Step(body, 0)
            ELSE write(t_idx, table,
                       [r \in 1..Len(rows) |->
                           IF r <= Len(table.rows) - 1 THEN table.rows[r + 1]
                           ELSE table.rows[2]] \o <<>>)
        at(t_idx) == IF t_idx = NoIndex THEN Step(body, 0) ELSE fit(t_idx, body[t_idx + 1])
        under(idx) ==
            IF rows = <<>> \/ idx = NoIndex THEN Step(body, 0)
            ELSE at(FirstTableUnder(body, idx))
    IN  under(find_heading_index(body, heading))

\* a copy of the template: its header row, then a copy of its first data row
\* for each row with the row's texts in its first three cells
build_table_from_template(template_tbl, rows) ==
    IF Len(template_tbl.rows) < 2 THEN template_tbl
    ELSE [template_tbl EXCEPT !.rows =
             <<template_tbl.rows[1]>> \o
             [r \in 1..Len(rows) |->
                 [c \in 1..Len(template_tbl.rows[2]) |->
                     IF c <= 3 THEN rows[r][c] ELSE template_tbl.rows[2][c]]]]

EmptyRow == << <<>>, <<>>, <<>> >>

build_table_with_header(template_tbl, header_cells, rows) ==
    LET tbl == build_table_from_template(template_tbl,
                                         IF rows = <<>> THEN <<EmptyRow>> ELSE rows)
    IN  IF tbl.rows = <<>> THEN tbl
        ELSE [tbl EXCEPT !.rows[1] =
                 [c \in 1..Len(tbl.rows[1]) |->
                     IF c <= 3 THEN header_cells[c] ELSE tbl.rows[1][c]]]

(***************************************************************************)
(* Legacy mode: ensure_missing_blocks.                                     *)
(***************************************************************************)
BuildCommand == <<"Run this command in the same directory: latexmk -pdf main.tex">>

\* a heading like the template and a list paragraph like the template per item
SectionWithList(body, title, level, template, items) ==
    <<make_heading_like_template(body, <<title>>, level)>> \o
    [n \in 1..Len(items) |-> clone_list_paragraph_with_text(template, items[n])]

\* a heading like the template and a table like the template
SectionWithTable(body, title, table_tpl, rows) ==
    <<make_heading_like_template(body, <<title>>, 2),
      build_table_from_template(table_tpl, rows)>>

\* the subsections of the links section: Left Navigation goes after Top
\* Navigation when it is missing, Home Feed Video Card after Left Navigation
MissingLinkSections(body, tx, table_tpl, top_nav_idx, left_idx, video_idx) ==
    LET video(st, left1) ==
            IF video_idx = NoIndex /\ left1 # NoIndex
            THEN Step(insert_after_index(st.body, left1,
                          SectionWithTable(st.body, "Home Feed Video Card", table_tpl,
                                           TexGet(tx.tables, "Home Feed Video Card"))),
                      st.changed + 1)
            ELSE st
        left(st) == video(st, find_heading_index(st.body, <<LeftNavigation>>))
    IN  IF top_nav_idx = NoIndex \/ table_tpl = NoTemplate THEN Step(body, 0)
        ELSE IF left_idx = NoIndex
        THEN left(Step(insert_after_index(body, top_nav_idx,
                           SectionWithTable(body, LeftNavigation, table_tpl,
                                            TexGet(tx.tables, LeftNavigation))),
                       1))
        ELSE video(Step(body, 0), left_idx)

\* the Flow B subsection goes after the Flow A heading
MissingFlowB(body, tx, enum_tpl, flow_a_idx, flow_b_idx) ==
    IF flow_a_idx # NoIndex /\ flow_b_idx = NoIndex /\ enum_tpl # NoTemplate
    THEN Step(insert_after_index(body, flow_a_idx,
                  SectionWithList(body, FlowB, 2, enum_tpl, TexGet(tx.enums, FlowB))),
              1)
    ELSE Step(body, 0)

\* the heading the Maintenance Notes section goes after
MaintenanceAnchor(flow_b_idx, flow_a_idx, ex_idx) ==
    IF flow_b_idx # NoIndex THEN flow_b_idx
    ELSE IF flow_a_idx # NoIndex THEN flow_a_idx
    ELSE ex_idx

MissingMaintenance(body, tx, list_tpl, maint_idx, maint_anchor) ==
    IF maint_idx = NoIndex /\ maint_anchor # NoIndex /\ list_tpl # NoTemplate
    THEN Step(insert_after_index(body, maint_anchor,
                  SectionWithList(body, "Maintenance Notes", 1, list_tpl,
                                  TexGet(tx.lists, "Maintenance Notes"))),
              1)
    ELSE Step(body, 0)

\* the Build section goes after Maintenance Notes, or after the anchor that
\* was found for Maintenance Notes
MissingBuild(body, build_idx, maint_idx, maint_anchor) ==
    LET after(anchor) ==
            IF build_idx = NoIndex /\ anchor # NoIndex
            THEN Step(insert_after_index(body, anchor,
                          <<make_heading_like_template(body, <<"Build">>, 1),
                            Para(BuildCommand)>>),
                      1)
            ELSE Step(body, 0)
    IN  after(IF maint_idx # NoIndex THEN maint_idx ELSE maint_anchor)

ensure_missing_blocks(body, tx) ==
    LET list_tpl == find_first_list_template(body)
        build(st, maint_anchor) ==
            Then(st, MissingBuild(st.body, find_heading_index(st.body, <<"Build">>),
                                  find_heading_index(st.body, <<"Maintenance Notes">>),
                                  maint_anchor))
        maintenance(st, maint_anchor) ==
            build(Then(st, MissingMaintenance(
                               st.body, tx, list_tpl,
                               find_heading_index(st.body, <<"Maintenance Notes">>),
                               maint_anchor)),
                  maint_anchor)
        anchored(st) ==
            maintenance(st, MaintenanceAnchor(
                                find_heading_index(st.body, <<FlowB>>),
                                find_heading_index(st.body, <<FlowA>>),
                                find_heading_index(st.body, <<"Example Task Flows">>)))
        flows(st, flow_tpl) ==
            anchored(Then(st, MissingFlowB(
                                  st.body, tx,
                                  IF flow_tpl = NoTemplate THEN list_tpl ELSE flow_tpl,
                                  find_heading_index(st.body, <<FlowA>>),
                                  find_heading_index(st.body, <<FlowB>>))))
    IN  flows(MissingLinkSections(body, tx, FirstTable(body),
                                  find_heading_index(body, <<"Top Navigation">>),
                                  find_heading_index(body, <<LeftNavigation>>),
                                  find_heading_index(body, <<"Home Feed Video Card">>)),
              find_list_template_under_heading(body, <<FlowA>>))

(***************************************************************************)
(* Legacy mode: rebuild_links_tables.                                      *)
(***************************************************************************)
\* specs: the subsections of the links section and the headers of their tables
LinkTables ==
    << [title |-> "Top Navigation", headers |-> << <<"Control">>, <<"Type">>, <<"Function">> >>],
       [title |-> LeftNavigation, headers |-> << <<"Item">>, <<"Type">>, <<"Function">> >>],
       [title |-> "Home Feed Video Card",
        headers |-> << <<"Area">>, <<"Type">>, <<"Function">> >>] >>

\* the table of subsection k, put right after the heading the title resolves to
InsertLinkTable(st, template_tbl, tx, k) ==
    LET at(hi) ==
            IF hi = NoIndex THEN st
            ELSE Step(InsertAt(st.body, hi + 1,
                               <<build_table_with_header(
                                     template_tbl, LinkTables[k].headers,
                                     TexGet(tx.tables, LinkTables[k].title))>>),
                      st.changed + 1)
    IN  at(find_heading_index(st.body, <<LinkTables[k].title>>))

\* the tables inserted in reverse order, from subsection k down to the first
\* (a pass is computed in full before the loop goes on to the next)
RECURSIVE InsertLinkTables(_, _, _, _)
InsertLinkTables(st, template_tbl, tx, k) ==
    IF k = 0 \/ st.error THEN st
    ELSE InsertLinkTables(InsertLinkTable(st, template_tbl, tx, k), template_tbl, tx, k - 1)

rebuild_links_tables(body, tx) ==
    LET rebuild(inside, template_tbl) ==
            IF template_tbl = NoTemplate THEN Step(body, 0)
            ELSE InsertLinkTables(Step(RemoveAt(body, inside), Cardinality(inside)),
                                  template_tbl, tx, Len(LinkTables))
        tables(inside) ==
            rebuild(inside, IF inside # {} THEN body[FirstIndex(inside) + 1]
                            ELSE FirstTable(body))
        between(links_idx, example_idx) ==
            IF links_idx = NoIndex \/ example_idx = NoIndex THEN Step(body, 0)
            ELSE tables({j \in (links_idx + 1)..(example_idx - 1) : ~IsPara(body[j + 1])})
    IN  between(find_heading_index(body, <<"Links and Buttons Mapping">>),
                find_heading_index(body, <<"Example Task Flows">>))

(***************************************************************************)
(* Legacy mode: enforce_section_lists_and_build.                           *)
(***************************************************************************)
\* a plain paragraph an earlier sync mode left: an item, or "<i>. <item>"
LegacyMatch(t, items) ==
    /\ t # <<>>
    /\ \E i \in 1..Len(items) :
           t = items[i] \/ t = <<ToString(i), ".", "sp">> \o items[i]

rewrite_list_section(body, heading, items, template, numbered, number_num_id) ==
    LET elems == [n \in 1..Len(items) |->
                     IF numbered THEN make_list_number_paragraph(items[n], number_num_id)
                     ELSE clone_list_paragraph_with_text(template, items[n])]
        fill(cur, removed, insert_idx) ==
            IF insert_idx = NoIndex THEN Step(cur, removed)
            ELSE Step(insert_after_index(cur, insert_idx, elems), removed + Len(items))
        empty(gone) ==
            fill(RemoveAt(body, gone), Cardinality(gone),
                 find_heading_index(RemoveAt(body, gone), heading))
        under(hi) ==
            IF template = NoTemplate \/ hi = NoIndex THEN Step(body, 0)
            ELSE empty({j \in (hi + 1)..(section_end_index(body, hi) - 1) :
                           /\ IsPara(body[j + 1])
                           /\ \/ is_list_paragraph(body[j + 1])
                              \/ LegacyMatch(Strip(paragraph_text(body[j + 1])), items)})
    IN  under(find_heading_index(body, heading))

\* the Build section is emptied and filled with the build lines
rewrite_build_section(body) ==
    LET fill(cur, removed, insert_idx) ==
            IF insert_idx = NoIndex THEN Step(cur, removed)
            ELSE Step(insert_after_index(cur, insert_idx,
                                         [n \in 1..Len(build_lines) |-> Para(build_lines[n])]),
                      removed + Len(build_lines))
        empty(gone) ==
            fill(RemoveAt(body, gone), Cardinality(gone),
                 find_heading_index(RemoveAt(body, gone), <<"Build">>))
        under(build_idx) ==
            IF build_idx = NoIndex THEN Step(body, 0)
            ELSE empty((build_idx + 1)..(section_end_index(body, build_idx) - 1))
    IN  under(find_heading_index(body, <<"Build">>))

\* rewrite number k of the four: the two flows, Maintenance Notes, Build
EnforceSection(k, body, tx, bullet_tpl, enum_tpl, flow_a_num_id, flow_b_num_id) ==
    CASE k = 1 -> rewrite_list_section(body, <<FlowA>>, TexGet(tx.enums, FlowA),
                                       enum_tpl, TRUE, flow_a_num_id)
      [] k = 2 -> rewrite_list_section(body, <<FlowB>>, TexGet(tx.enums, FlowB),
                                       enum_tpl, TRUE, flow_b_num_id)
      [] k = 3 -> rewrite_list_section(body, <<"Maintenance Notes">>,
                                       TexGet(tx.lists, "Maintenance Notes"),
                                       bullet_tpl, FALSE, -1)
      [] OTHER -> rewrite_build_section(body)

\* the rewrites from number k on, each on the body the ones before it left
RECURSIVE EnforceSections(_, _, _, _, _, _, _)
EnforceSections(st, k, tx, bullet_tpl, enum_tpl, flow_a_num_id, flow_b_num_id) ==
    IF k > 4 \/ st.error THEN st
    ELSE EnforceSections(
             Then(st, EnforceSection(k, st.body, tx, bullet_tpl, enum_tpl,
                                     flow_a_num_id, flow_b_num_id)),
             k + 1, tx, bullet_tpl, enum_tpl, flow_a_num_id, flow_b_num_id)

enforce_section_lists_and_build(body, tx, flow_a_num_id, flow_b_num_id) ==
    LET with(bullet_tpl, flow_tpl) ==
            EnforceSections(Step(body, 0), 1, tx, bullet_tpl,
                            IF flow_tpl = NoTemplate THEN bullet_tpl ELSE flow_tpl,
                            flow_a_num_id, flow_b_num_id)
    IN  with(find_first_list_template(body),
             find_list_template_under_heading(body, <<FlowA>>))

(***************************************************************************)
(* Legacy mode: the numbers of the headings.                               *)
(***************************************************************************)
\* re.sub(r"^\s*\d+(\.\d+)*\.?\s*", "", raw), then a blank in front of what is left
StripManualNumber(raw) ==
    LET d == SpanEnd(raw, 1, {"sp"})
        e == NumberPrefixEnd(raw, d)
        new == IF e = d THEN raw ELSE SubSeq(raw, e, Len(raw))
    IN  IF new # <<>> /\ Head(new) # "sp" THEN <<"sp">> \o new ELSE new

\* the first text run after a SectionNumber run loses its manual number
NormalizedHeading(p) ==
    IF IsPara(p) /\ is_heading_paragraph(p) /\ p.num # <<>> /\ p.text # <<>>
    THEN [p EXCEPT !.text = StripManualNumber(@)]
    ELSE p

normalize_heading_manual_numbers(body) ==
    Step([i \in 1..Len(body) |-> NormalizedHeading(body[i])],
         Cardinality({i \in 1..Len(body) : NormalizedHeading(body[i]) # body[i]}))

\* the heading style, then the runs [SectionNumber][tab][title]
set_heading_number_and_title(p, level, number_text, title_text) ==
    [p EXCEPT !.style = HeadingStyle(level), !.num = number_text, !.text = title_text,
              !.pic = ""]

\* target number k: the heading it resolves to gets its level, number and title
EnforceTarget(st, k) ==
    LET t == Targets[k]
        set(idx, p) ==
            Step([st.body EXCEPT ![idx + 1] = p],
                 IF paragraph_text(st.body[idx + 1]) # paragraph_text(p)
                 THEN st.changed + 1 ELSE st.changed)
        at(idx) ==
            IF idx = NoIndex THEN st
            ELSE set(idx, set_heading_number_and_title(st.body[idx + 1], t.level, t.num,
                                                       <<t.title>>))
    IN  at(find_heading_index(st.body, <<t.title>>))

\* the targets from number k on, each resolved in the body the ones before left
\* (a pass is computed in full before the loop goes on to the next)
RECURSIVE EnforceTargets(_, _)
EnforceTargets(st, k) ==
    IF k > Len(Targets) \/ st.error THEN st
    ELSE EnforceTargets(EnforceTarget(st, k), k + 1)

enforce_heading_numbers(body) == EnforceTargets(Step(body, 0), 1)

(***************************************************************************)
(* legacy_main: the text reconciler in legacy mode.                        *)
(***************************************************************************)
\* step number k of a run, in the order in which legacy_main calls them
LegacyStep(k, body, tx, ids) ==
    CASE k = 1 -> sync_list_under_heading(body, <<"Scope">>, TexGet(tx.lists, "Scope"))
      [] k = 2 -> sync_list_under_heading(body, <<"Prerequisites">>,
                                          TexGet(tx.lists, "Prerequisites"))
      [] k = 3 -> sync_list_under_heading(body, <<"Maintenance Notes">>,
                                          TexGet(tx.lists, "Maintenance Notes"))
      [] k = 4 -> sync_table_under_heading(body, <<"Top Navigation">>,
                                           TexGet(tx.tables, "Top Navigation"))
      [] k = 5 -> sync_table_under_heading(body, <<LeftNavigation>>,
                                           TexGet(tx.tables, LeftNavigation))
      [] k = 6 -> sync_table_under_heading(body, <<"Home Feed Video Card">>,
                                           TexGet(tx.tables, "Home Feed Video Card"))
      [] k = 7 -> sync_list_under_heading(body, <<FlowA>>, TexGet(tx.enums, FlowA))
      [] k = 8 -> sync_list_under_heading(body, <<FlowB>>, TexGet(tx.enums, FlowB))
      [] k = 9 -> ensure_missing_blocks(body, tx)
      [] k = 10 -> rebuild_links_tables(body, tx)
      [] k = 11 -> enforce_section_lists_and_build(body, tx, ids.flow_a, ids.flow_b)
      [] k = 12 -> normalize_heading_manual_numbers(body)
      [] OTHER -> enforce_heading_numbers(body)

\* changed += step(body) for the steps from number k on; an exception ends the run
RECURSIVE LegacyStepsFrom(_, _, _, _)
LegacyStepsFrom(st, k, tx, ids) ==
    IF k > 13 \/ st.error THEN st
    ELSE LegacyStepsFrom(Then(st, LegacyStep(k, st.body, tx, ids)), k + 1, tx, ids)

LegacySteps(tx, body, ids) == LegacyStepsFrom(Step(body, 0), 1, tx, ids)

\* the steps of a run on document d: the body they leave, the numbering
\* definitions to write, the changes counted
LegacySync(tx, d) ==
    LET result(ids, r) ==
            [body |-> r.body, numbering |-> ids.numbering, changed |-> r.changed,
             error |-> r.error]
        run(ids) == result(ids, LegacySteps(tx, d.body, ids))
    IN  run(prepare_decimal_num_ids(d.numbering))

LegacyOutput(d, r) == [d EXCEPT !.body = r.body, !.numbering = r.numbering]

\* the document is written only when the run is not a dry run and counted changes
legacy_main(dry_run) ==
    /\ Len(docx.body) <= MaxBody
    /\ IF docx.archive # "ok"
       THEN Aborted("legacy")
       ELSE \E r \in {LegacySync(tex, docx)} :
                IF r.error
                THEN Aborted("legacy")
                ELSE /\ prev' = docx
                     /\ out' = LegacyOutput(docx, r)
                     /\ report' = [changes |-> r.changed]
                     /\ docx' = IF ~dry_run /\ r.changed > 0 THEN out' ELSE docx
                     /\ last' = [mode |-> "legacy", saved |-> ~dry_run /\ r.changed > 0,
                                 aborted |-> FALSE]
    /\ UNCHANGED <<spec, tex, files, origin, call, ret>>

(***************************************************************************)
(* sync_legacy: the figure embedder in legacy mode.  tex.shots holds the   *)
(* screenshot boxes of the source in order; shot number n is shots[n].     *)
(***************************************************************************)
anchors ==
    <<"Home Page Overview", "Top Navigation", LeftNavigation, "Home Feed Video Card",
      FlowA, FlowA, FlowB, FlowB>>

\* the anchor of shot number n
ShotAnchor(n) == IF n <= Len(anchors) THEN anchors[n] ELSE "Example Task Flows"

\* the captions of the shots, bare and with their figure label
ShotCaptions(shots) ==
    {shots[n].caption : n \in 1..Len(shots)}
        \cup {FigureLabel(n) \o shots[n].caption : n \in 1..Len(shots)}

\* the atoms whose lower-case text holds one of legacy_hints ("overview")
LegacyHintAtoms == {"Home Page Overview", "homepageoverview"}

is_caption_style(p) == p.style \in {"ImageCaption", "Caption"}

is_known_caption(p, captions) ==
    \/ Strip(ParagraphText(p)) \in captions
    \/ \E i \in 1..Len(p.text) : p.text[i] \in LegacyHintAtoms

\* the scan from paragraph number i on: a known caption of caption style is
\* removed, and the paragraph before it when that is a drawing without text
RECURSIVE ClearShots(_, _, _)
ClearShots(st, i, captions) ==
    LET ps == Paragraphs(st.body)
        p == ps[i + 1]
        before == ps[i]
        drawing == i - 1 >= 0 /\ before.pic # "" /\ Strip(ParagraphText(before)) = <<>>
    IN  IF i >= Len(ps) THEN st
        ELSE IF ~(is_caption_style(p) /\ is_known_caption(p, captions))
        THEN ClearShots(st, i + 1, captions)
        ELSE IF drawing
        THEN ClearShots([body |-> RemoveAt(st.body, {ParagraphPosition(st.body, i) - 1,
                                                     ParagraphPosition(st.body, i - 1) - 1}),
                         removed |-> st.removed + 2],
                        i - 1, captions)
        ELSE ClearShots([body |-> RemoveAt(st.body, {ParagraphPosition(st.body, i) - 1}),
                         removed |-> st.removed + 1],
                        i, captions)

clear_existing_shot_blocks(body, captions) ==
    ClearShots([body |-> body, removed |-> 0], 0, captions)

\* tail_by_anchor: where in the body (counted from 1) the last caption put
\* under the anchor is, 0 when none was
TailOf(tails, anchor) ==
    LET S == {i \in 1..Len(tails) : tails[i].anchor = anchor}
    IN  IF S = {} THEN 0 ELSE tails[FirstIndex(S)].pos

\* a variant: the anchor's tail is the new image paragraph, not its caption
TailsAtImage(tails, anchor, after) ==
    LET moved == [i \in 1..Len(tails) |->
                     IF tails[i].pos > after THEN [tails[i] EXCEPT !.pos = @ + 2]
                     ELSE tails[i]]
        S == {i \in 1..Len(moved) : moved[i].anchor = anchor}
    IN  IF S = {} THEN Append(moved, [anchor |-> anchor, pos |-> after + 1])
        ELSE [moved EXCEPT ![FirstIndex(S)].pos = after + 1]

\* two paragraphs were put after position after: the tails behind move on, the
\* anchor's tail is the new caption
TailsAfterInsert(tails, anchor, after) ==
    LET moved == [i \in 1..Len(tails) |->
                     IF tails[i].pos > after THEN [tails[i] EXCEPT !.pos = @ + 2]
                     ELSE tails[i]]
        S == {i \in 1..Len(moved) : moved[i].anchor = anchor}
    IN  IF S = {} THEN Append(moved, [anchor |-> anchor, pos |-> after + 2])
        ELSE [moved EXCEPT ![FirstIndex(S)].pos = after + 2]

\* shot number n: its image and its caption go after the last caption put
\* under its anchor, or at the end of the anchor's section
InsertShot(st, shot, n, fs, styles) ==
    LET anchor == ShotAnchor(n)
        put(after) ==
            [body |-> InsertAt(st.body, after,
                               <<ImagePara(shot.img_rel),
                                 CaptionPara(n, shot.caption, styles)>>),
             inserted |-> st.inserted + 1,
             tails |-> TailsAfterInsert(st.tails, anchor, after)]
        end(start_idx, found) ==
            find_section_end_index(st.body, start_idx, IF found = 0 THEN 1 ELSE found)
        under(start_idx) ==
            IF shot.img_rel \notin fs \/ start_idx = NoIndex THEN st
            ELSE put(IF TailOf(st.tails, anchor) # 0 THEN TailOf(st.tails, anchor)
                     ELSE ParagraphPosition(
                              st.body,
                              end(start_idx,
                                  get_heading_level(Paragraphs(st.body)[start_idx + 1]))))
    IN  under(find_heading_index_fuzzy(find_heading_indices(st.body),
                                       fig_canonical(<<anchor>>)))

\* the shots from number n on
RECURSIVE InsertShots(_, _, _, _, _)
InsertShots(st, shots, fs, styles, n) ==
    IF n > Len(shots) THEN st
    ELSE InsertShots(InsertShot(st, shots[n], n, fs, styles), shots, fs, styles, n + 1)

LegacyFigSync(tx, fs, d) ==
    LET result(cleared, r) ==
            [body |-> r.body, removed |-> cleared.removed, inserted |-> r.inserted]
        insert(cleared) ==
            result(cleared, InsertShots([body |-> cleared.body, inserted |-> 0,
                                         tails |-> <<>>],
                                        tx.shots, fs, d.styles, 1))
    IN  insert(clear_existing_shot_blocks(d.body, ShotCaptions(tx.shots)))

sync_legacy ==
    /\ Len(docx.body) <= MaxBody
    /\ IF docx.archive # "ok"
       THEN Aborted("legacy_figures")
       ELSE \E r \in {LegacyFigSync(tex, files, docx)} :
                /\ prev' = docx
                /\ out' = FigOutput(docx, r)
                /\ report' = [removed_old_blocks |-> r.removed, inserted_blocks |-> r.inserted]
                /\ docx' = out'
                /\ last' = [mode |-> "legacy_figures", saved |-> TRUE, aborted |-> FALSE]
    /\ UNCHANGED <<spec, tex, files, origin, call, ret>>

(***************************************************************************)
(* Inputs of legacy mode.                                                  *)
(***************************************************************************)
\* a header row and a data row of three cells
LinksTable == Tbl(<< << <<"Control">>, <<"Type">>, <<"Function">> >>,
                     << <<"y">>, <<"y">>, <<"y">> >> >>)

\* a header row only
HeaderOnlyTable == Tbl(<< << <<"Control">>, <<"Type">>, <<"Function">> >> >>)

\* manuals in the shape of the template: known sections with their lists and
\* tables, some missing, one with a number typed into its heading
LegacyBodies ==
    { << Para(<<"x">>) >>,
      << Heading(1, <<>>, <<"Scope">>), ListPara(<<"y">>, 1),
         Heading(1, <<>>, <<"Prerequisites">>), ListPara(<<"y">>, 1) >>,
      << Heading(1, <<"1">>, <<"1", ".", "sp", "Scope">>), ListPara(<<"y">>, 2),
         ListPara(<<"x">>, 2), Heading(1, <<"5">>, <<"sp", "Example Task Flows">>) >>,
      << Heading(1, <<>>, <<"Example Task Flows">>), Heading(2, <<>>, <<FlowA>>),
         ListPara(<<"x">>, 2) >>,
      << Heading(2, <<>>, <<FlowA>>), ListPara(<<"x">>, 2),
         Heading(2, <<>>, <<FlowB>>), ListPara(<<"y">>, 2) >>,
      << Heading(1, <<>>, <<"Links and Buttons Mapping">>),
         Heading(2, <<>>, <<"Top Navigation">>), LinksTable,
         Heading(1, <<>>, <<"Example Task Flows">>) >>,
      << Heading(2, <<>>, <<"Top Navigation">>), HeaderOnlyTable,
         Heading(1, <<>>, <<"Maintenance Notes">>), Para(<<"1", ".", "sp", "x">>),
         ListPara(<<"y">>, 1), Heading(1, <<>>, <<"Build">>), Para(<<"y">>) >>,
      << Heading(1, <<>>, <<"Scope">>), ListPara(<<"y">>, 1),
         Heading(1, <<>>, <<"Links and Buttons Mapping">>),
         Heading(2, <<>>, <<"Top Navigation">>), LinksTable,
         Heading(1, <<>>, <<"Example Task Flows">>), Heading(2, <<>>, <<FlowA>>),
         ListPara(<<"x">>, 2) >> }

\* two decimal definitions' instances, none with a start override
TwoDecimalNumbering ==
    [abs |-> << [aid |-> 0, fmt |-> "bullet", lvl_text |-> "bullet_glyph"],
                [aid |-> 1, fmt |-> "decimal", lvl_text |-> "%1."] >>,
     nums |-> << [nid |-> 1, abs |-> 0, start |-> 0], [nid |-> 2, abs |-> 1, start |-> 0],
                 [nid |-> 3, abs |-> 1, start |-> 0] >>]

\* a bullet definition only
BulletNumbering ==
    [abs |-> << [aid |-> 0, fmt |-> "bullet", lvl_text |-> "bullet_glyph"] >>,
     nums |-> << [nid |-> 1, abs |-> 0, start |-> 0] >>]

LegacyNumberings == {NoNumbering, BulletNumbering, PlainNumbering, TwoDecimalNumbering}

TexRow == << <<"x">>, <<"y">>, <<"x">> >>

\* what parse_tex reads: the items of Scope and Maintenance Notes, the steps
\* of the two flows, the rows of Top Navigation
LegacyTex(scope, maintenance, flow_a, flow_b, rows) ==
    [lists |-> << [heading |-> "Scope", items |-> scope],
                  [heading |-> "Prerequisites", items |-> <<>>],
                  [heading |-> "Maintenance Notes", items |-> maintenance] >>,
     tables |-> << [heading |-> "Top Navigation", items |-> rows],
                   [heading |-> LeftNavigation, items |-> <<>>],
                   [heading |-> "Home Feed Video Card", items |-> <<>>] >>,
     enums |-> << [heading |-> FlowA, items |-> flow_a],
                  [heading |-> FlowB, items |-> flow_b] >>,
     shots |-> <<>>]

LegacyTexts ==
    {LegacyTex(scope, maintenance, flow, <<flow[1]>>, rows) :
        scope \in SeqsUpTo({<<"x">>}, MaxTexItems),
        maintenance \in { <<>>, << <<"x">> >> },
        flow \in { << <<"x">> >>, << <<"y">>, <<"x">> >> },
        rows \in { <<>>, <<TexRow, TexRow>> }}

InitLegacy ==
    \E body \in LegacyBodies, numbering \in LegacyNumberings, tx \in LegacyTexts :
        StartRun(Docx(body, numbering, {}), <<>>, tx, {})

LegacyNext == \E dry_run \in BOOLEAN : legacy_main(dry_run)

LegacySpec == InitLegacy /\ [][LegacyNext]_vars

\* the screenshot boxes read from the source
Shot(img_rel, caption) == [img_rel |-> img_rel, caption |-> caption]

LegacyShots ==
    SeqsUpTo({Shot("a.png", <<"x">>), Shot("b.png", <<"y">>)}, MaxParas)

LegacyFigBodies ==
    { << Heading(1, <<>>, <<"Home Page Overview">>), Para(<<"x">>),
         Heading(2, <<>>, <<"Top Navigation">>), LinksTable >>,
      << Heading(1, <<"3">>, <<"Home Page Overview">>),
         Heading(1, <<"4">>, <<"Links and Buttons Mapping">>),
         Heading(2, <<"4", ".", "1">>, <<"Top Navigation">>), Para(<<"y">>) >>,
      << Heading(2, <<>>, <<"Top Navigation">>), Para(<<"x">>) >>,
      << Para(<<"x">>) >> }

InitLegacyFig ==
    \E body \in LegacyFigBodies, styles \in {{}, {"Caption"}, {"ImageCaption"}},
       shots \in LegacyShots, fs \in SUBSET {"a.png", "b.png"} :
        StartRun(Docx(body, NoNumbering, styles), <<>>, [NoTex EXCEPT !.shots = shots], fs)

LegacyFigSpec == InitLegacyFig /\ [][sync_legacy]_vars

(***************************************************************************)
(* sync_legacy on sources with more than four screenshot boxes: the fifth  *)
(* and the sixth box share the anchor Flow A, the seventh is under Flow B. *)
(***************************************************************************)
\* the first four boxes, each under an anchor of its own
FirstShots ==
    << Shot("a.png", <<"x">>), Shot("b.png", <<"y">>),
       Shot("a.png", <<"y">>), Shot("b.png", <<"x">>) >>

TailShots ==
    {FirstShots \o t :
        t \in SeqsUpTo({Shot("a.png", <<"x">>), Shot("b.png", <<"y">>)}, MaxParas)}

\* manuals without figures: Flow A with text, with a table only, last in the
\* body, after Flow B, and absent
TailBodies ==
    { << Heading(1, <<>>, <<"Example Task Flows">>), Heading(2, <<>>, <<FlowA>>),
         Para(<<"x">>), Heading(2, <<>>, <<FlowB>>), Para(<<"y">>) >>,
      << Heading(2, <<>>, <<"Top Navigation">>), LinksTable,
         Heading(2, <<>>, <<FlowA>>), LinksTable,
         Heading(1, <<>>, <<"Build">>), Para(<<"x">>) >>,
      << Heading(1, <<>>, <<"Home Page Overview">>), Para(<<"x">>),
         Heading(2, <<>>, <<FlowA>>) >>,
      << Heading(2, <<>>, <<FlowB>>), Para(<<"y">>), Heading(2, <<>>, <<FlowA>>),
         Para(<<"x">>), Para(<<"y">>) >>,
      << Para(<<"x">>) >> }

InitTail ==
    \E body \in TailBodies, styles \in {{}, {"Caption"}, {"ImageCaption"}},
       shots \in TailShots, fs \in SUBSET {"a.png", "b.png"} :
        StartRun(Docx(body, NoNumbering, styles), <<>>, [NoTex EXCEPT !.shots = shots], fs)

TailSpec == InitTail /\ [][sync_legacy]_vars

(***************************************************************************)
(* Runs of both modes of both reconcilers, on documents that open and on   *)
(* documents that do not.                                                  *)
(***************************************************************************)
\* an archive that cannot be read, an archive whose document part has no body
BrokenDocx(archive) ==
    [body |-> <<>>, numbering |-> NoNumbering, styles |-> {}, archive |-> archive]

PersistBodies ==
    { << Para(Token(IdA)), Para(FigToken(IdA)) >>,
      << Heading(1, <<>>, <<"Scope">>), ListPara(<<"y">>, 1), Para(Token(IdA)) >>,
      << Heading(1, <<>>, <<"Scope">>), ListPara(<<"y">>, 1) >>,
      << Heading(1, <<>>, <<"Home Page Overview">>), Para(FigToken(IdA)) >>,
      << Para(<<"x">>) >> }

PersistSpecs ==
    { <<>>, <<ListBlock(IdA, "numbered_list", << <<"x">>, <<"y">> >>), FigureA>> }

PersistTexts ==
    {[LegacyTex(scope, <<>>, <<>>, <<>>, <<>>) EXCEPT !.shots = shots] :
        scope \in SeqsUpTo({<<"x">>}, MaxTexItems),
        shots \in { <<>>, <<Shot("a.png", <<"x">>)>> }}

InitPersist ==
    \E d \in {Docx(body, numbering, {"Caption"}) :
                 body \in PersistBodies, numbering \in {NoNumbering, PlainNumbering}}
             \cup {BrokenDocx("unreadable"), BrokenDocx("nobody")},
       sp \in PersistSpecs, tx \in PersistTexts :
        StartRun(d, sp, tx, {"a.png"})

PersistNext ==
    \/ \E dry_run \in BOOLEAN : sync_dynamic_from_spec(dry_run)
    \/ \E dry_run \in BOOLEAN : legacy_main(dry_run)
    \/ sync_dynamic
    \/ sync_legacy

PersistSpec == InitPersist /\ [][PersistNext]_vars

(***************************************************************************)
(* The helper functions applied to arguments of their own.                 *)
(***************************************************************************)
\* the function returns value for the arguments of call
Returns(fn, value) ==
    /\ ret = NoCall
    /\ ret' = [fn |-> fn, value |-> value]
    /\ UNCHANGED <<docx, spec, tex, files, origin, prev, out, report, last, call>>

CallCanonical ==
    /\ call.fn = "canonical"
    /\ Returns("canonical", canonical(call.text))

CallFigCanonical ==
    /\ call.fn = "canonical"
    /\ Returns("fig_canonical", fig_canonical(call.text))

CallFindHeadingIndex ==
    /\ call.fn = "find_heading"
    /\ Returns("find_heading_index", find_heading_index(call.body, call.heading))

CallFindHeadingIndexFuzzy ==
    /\ call.fn = "find_heading"
    /\ Returns("find_heading_index_fuzzy",
               find_heading_index_fuzzy(find_heading_indices(call.body),
                                        fig_canonical(call.heading)))

CallSectionEndIndex ==
    /\ call.fn = "section_end"
    /\ Returns("section_end_index", section_end_index(call.body, call.start_idx))

\* the heading is paragraph number (paragraphs before it) of doc.paragraphs
CallFindSectionEndIndex ==
    /\ call.fn = "section_end"
    /\ Returns("find_section_end_index",
               find_section_end_index(
                   call.body,
                   Len(Paragraphs(SubSeq(call.body, 1, call.start_idx))),
                   get_heading_level(call.body[call.start_idx + 1])))

CallEnsureNumId ==
    /\ call.fn = "ensure_num_id"
    /\ Returns("ensure_num_id_for_format",
               ensure_num_id_for_format(call.numbering, call.num_fmt, call.restart))

CallSyncList ==
    /\ call.fn = "sync_list"
    /\ Returns("sync_list_under_heading",
               sync_list_under_heading(call.body, call.heading, call.items))

CallNext ==
    \/ CallCanonical
    \/ CallFigCanonical
    \/ CallFindHeadingIndex
    \/ CallFindHeadingIndexFuzzy
    \/ CallSectionEndIndex
    \/ CallFindSectionEndIndex
    \/ CallEnsureNumId
    \/ CallSyncList

\* titles: an enumeration, a title, a typesetting command
TitleAtoms == {"4", "2", ".", "sp", "Top Navigation", "\\", "url", "{", "}"}

CanonicalCalls == {[fn |-> "canonical", text |-> t] : t \in SeqsUpTo(TitleAtoms, MaxTitle)}

\* headings that share a canonical text, contain one another or have none
ResolveElems ==
    { Heading(1, <<>>, <<"Scope">>), Heading(2, <<"1">>, <<"Scope">>),
      Heading(1, <<>>, <<"Scope", "sp", "Build">>), Heading(2, <<>>, <<"Build">>),
      Heading(1, <<>>, <<"x">>), Para(<<"Scope">>), Tbl(<< << <<"Build">> >> >>) }

ResolveCalls ==
    {[fn |-> "find_heading", body |-> b, heading |-> h] :
        b \in SeqsUpTo(ResolveElems, MaxHeadings),
        h \in { <<"Scope">>, <<"Build">>, <<"Scope", "sp", "Build">>, <<"Prerequisites">> }}

SectionElems ==
    { Heading(1, <<>>, <<"Scope">>), Heading(2, <<>>, <<"Top Navigation">>),
      Heading(3, <<>>, <<"Build">>), Para(<<"x">>), Tbl(<< << <<"y">> >> >>) }

SectionCalls ==
    UNION {{[fn |-> "section_end", body |-> b, start_idx |-> s] :
               s \in {i \in 0..(Len(b) - 1) : IsPara(b[i + 1]) /\ is_heading_paragraph(b[i + 1])}} :
           b \in SeqsUpTo(SectionElems, MaxHeadings + 1)}

AbstractDefs ==
    { [aid |-> 0, fmt |-> "bullet", lvl_text |-> "sp"],
      [aid |-> 1, fmt |-> "bullet", lvl_text |-> "bullet_glyph"],
      [aid |-> 2, fmt |-> "decimal", lvl_text |-> "%1."],
      [aid |-> 3, fmt |-> "bullet", lvl_text |-> ""],
      [aid |-> 4, fmt |-> "decimal", lvl_text |-> "%1."] }

NumInstances == {[nid |-> n, abs |-> a, start |-> 0] : n \in 1..MaxDefs, a \in {0, 1, 2, 4}}

\* numbering definitions with distinct ids
NumberingDefs ==
    {[abs |-> a, nums |-> n] :
        a \in {s \in SeqsUpTo(AbstractDefs, MaxDefs) :
                  \A i, j \in 1..Len(s) : s[i].aid = s[j].aid => i = j},
        n \in {s \in SeqsUpTo(NumInstances, MaxDefs) :
                  \A i, j \in 1..Len(s) : s[i].nid = s[j].nid => i = j}}

EnsureCalls ==
    {[fn |-> "ensure_num_id", numbering |-> n, num_fmt |-> k, restart |-> r] :
        n \in NumberingDefs, k \in {"bullet", "decimal"}, r \in BOOLEAN}

ListElems ==
    { Heading(1, <<>>, <<"Scope">>), Heading(1, <<>>, <<"Prerequisites">>),
      ListPara(<<"y">>, 1), Para(<<"x">>) }

SyncListCalls ==
    {[fn |-> "sync_list", body |-> b, heading |-> <<"Scope">>, items |-> is] :
        b \in SeqsUpTo(ListElems, MaxHeadings + 1),
        is \in SeqsUpTo({<<"x">>, <<"y">>}, MaxTexItems)}

InitCall ==
    \E c \in CanonicalCalls \cup ResolveCalls \cup SectionCalls \cup EnsureCalls
                 \cup SyncListCalls :
        /\ Loaded(Docx(<<>>, NoNumbering, {}), <<>>, NoTex, {})
        /\ call = c
        /\ ret = NoCall

CallSpec == InitCall /\ [][CallNext]_vars

(***************************************************************************)
(* enforce_heading_numbers applied to a body, and again to what it left.   *)
(* ret.value is the pass last made, ret.runs the number of passes.         *)
(***************************************************************************)
EnforcedAgain(fn, r, n) ==
    /\ ret' = [fn |-> fn, value |-> r, runs |-> n]
    /\ UNCHANGED <<docx, spec, tex, files, origin, prev, out, report, last, call>>

CallEnforceHeadingNumbers ==
    /\ call.fn = "enforce_heading_numbers"
    /\ IF ret = NoCall
       THEN EnforcedAgain("enforce_heading_numbers", enforce_heading_numbers(call.body), 1)
       ELSE /\ ret.runs < 2
            /\ EnforcedAgain("enforce_heading_numbers",
                             enforce_heading_numbers(ret.value.body), ret.runs + 1)

\* headings as written, with a number typed into the title, numbered, twice in
\* a body, with a title of no letter or digit, and text that is no heading
HeadingElems ==
    { Heading(1, <<>>, <<"Scope">>), Heading(2, <<"1">>, <<"1", ".", "sp", "Scope">>),
      Heading(1, <<"7">>, <<"Build">>), Heading(2, <<>>, <<"Top Navigation">>),
      Heading(1, <<>>, <<"x">>), Para(<<"Scope">>) }

HeadingCalls ==
    {[fn |-> "enforce_heading_numbers", body |-> b] :
        b \in SeqsUpTo(HeadingElems, MaxHeadings)}

InitHeading ==
    \E c \in HeadingCalls :
        /\ Loaded(Docx(<<>>, NoNumbering, {}), <<>>, NoTex, {})
        /\ call = c
        /\ ret = NoCall

HeadingSpec == InitHeading /\ [][CallEnforceHeadingNumbers]_vars

(***************************************************************************)
(* enforce_section_lists_and_build applied to a body as a document part    *)
(* holds it: the last child of the body is its section properties.         *)
(***************************************************************************)
\* w:sectPr, the child of the body after the last paragraph: no paragraph, no table
SectPr == [Para(<<>>) EXCEPT !.kind = "sectPr"]

CallEnforceSections ==
    /\ call.fn = "enforce_sections"
    /\ Returns("enforce_section_lists_and_build",
               enforce_section_lists_and_build(call.body, call.tex, call.flow_a_num_id,
                                               call.flow_b_num_id))

\* sections the rewrite knows and one it does not, with lists, text and a table
SectionRewriteElems ==
    { Heading(1, <<>>, <<"Build">>), Heading(2, <<>>, <<FlowA>>),
      Heading(1, <<>>, <<"Maintenance Notes">>), Heading(1, <<>>, <<"Scope">>),
      ListPara(<<"x">>, 2), Para(<<"y">>), LinksTable }

SectionRewriteCalls ==
    {[fn |-> "enforce_sections", body |-> b \o <<SectPr>>, tex |-> tx,
      flow_a_num_id |-> 2, flow_b_num_id |-> 3] :
        b \in SeqsUpTo(SectionRewriteElems, MaxHeadings),
        tx \in {LegacyTex(<<>>, <<>>, << <<"x">> >>, << <<"x">> >>, <<>>),
                LegacyTex(<<>>, << <<"x">> >>, << <<"y">>, <<"x">> >>, << <<"y">> >>, <<>>)}}

InitSection ==
    \E c \in SectionRewriteCalls :
        /\ Loaded(Docx(<<>>, NoNumbering, {}), <<>>, NoTex, {})
        /\ call = c
        /\ ret = NoCall

SectionSpec == InitSection /\ [][CallEnforceSections]_vars

(***************************************************************************)
(* ensure_num_id_for_format called again and again on the numbering        *)
(* definitions of one document: ret.value is what the last call returned,  *)
(* ret.calls the number of calls made.                                     *)
(***************************************************************************)
Ensured(r, n) ==
    /\ ret' = [fn |-> "ensure_num_id_for_format", value |-> r, calls |-> n]
    /\ UNCHANGED <<docx, spec, tex, files, origin, prev, out, report, last, call>>

CallEnsureNumIdAgain ==
    /\ call.fn = "numbering"
    /\ \E num_fmt \in {"bullet", "decimal"}, restart \in BOOLEAN :
           IF ret = NoCall
           THEN Ensured(ensure_num_id_for_format(call.numbering, num_fmt, restart), 1)
           ELSE /\ ret.calls < MaxCalls
                /\ Ensured(ensure_num_id_for_format(ret.value.numbering, num_fmt, restart),
                           ret.calls + 1)

\* definitions out of order, with an instance id that is no number (-1) and a
\* bullet definition with an empty glyph
UnorderedNumbering ==
    [abs |-> << [aid |-> 2000, fmt |-> "decimal", lvl_text |-> "%1."],
                [aid |-> 7, fmt |-> "bullet", lvl_text |-> ""] >>,
     nums |-> << [nid |-> 1001, abs |-> 7, start |-> 0], [nid |-> -1, abs |-> 2000, start |-> 0],
                 [nid |-> 999, abs |-> 2000, start |-> 1] >>]

\* numbering definitions of documents: distinct ids, every instance of a definition
InitNumbering ==
    \E n \in {NoNumbering, PlainNumbering, BlankBulletNumbering, BulletNumbering,
              TwoDecimalNumbering, UnorderedNumbering} :
        /\ Loaded(Docx(<<>>, n, {}), <<>>, NoTex, {})
        /\ call = [fn |-> "numbering", numbering |-> n]
        /\ ret = NoCall

NumberingSpec == InitNumbering /\ [][CallEnsureNumIdAgain]_vars

(***************************************************************************)
(* merge_capture_manifest: the figure blocks of the manual specification   *)
(* take the image and the caption of their scene in the capture manifest.  *)
(* A specification is its sections (the blocks of each, in order) and the  *)
(* fallbacks of its trace; images_root tells whether --images-root is      *)
(* given, and files then holds the names of the files under it.            *)
(***************************************************************************)
\* a scene of the manifest; captioned: the scene has a caption of its own
Scene(fid, image_rel, degraded) ==
    [figure_id |-> fid, image_rel |-> image_rel, degraded |-> degraded,
     captioned |-> FALSE, caption |-> <<>>]

NoScene == Scene(<<>>, "", FALSE)

\* by_figure.get(fig_id): the last scene with the non-empty figure_id
by_figure_get(scenes, fid) ==
    LET hits == {i \in 1..Len(scenes) :
                    scenes[i].figure_id # <<>> /\ scenes[i].figure_id = fid}
    IN  IF hits = {} THEN NoScene ELSE scenes[MaxOf(hits, 0)]

\* Path(image_rel).name: the last component of the path
PathName(image_rel) ==
    CASE image_rel = "img/a.png" -> "a.png"
      [] image_rel = "img/b.png" -> "b.png"
      [] OTHER -> image_rel

\* a variant: a figure whose scene is degraded is dropped as well
MergeFigureDegradedDropped(st, block, scene, images_root, fs) ==
    LET image_rel == IF scene.image_rel # "" THEN scene.image_rel ELSE block.image_rel
        fig_id == IF block.figure_id = <<>> THEN <<"unknown">> ELSE block.figure_id
    IN  IF scene = NoScene \/ scene.degraded
        THEN [st EXCEPT !.removed = Append(@, fig_id)]
        ELSE IF images_root /\ image_rel # "" /\ PathName(image_rel) \notin fs
        THEN [st EXCEPT !.removed = Append(@, fig_id)]
        ELSE [st EXCEPT !.blocks = Append(@, [block EXCEPT
                            !.image_rel = image_rel,
                            !.caption = IF scene.captioned THEN scene.caption ELSE @])]

\* a figure block: dropped and recorded without a scene or without its image
\* file, else kept with the image and the caption of the scene
MergeFigure(st, block, scene, images_root, fs) ==
    LET image_rel == IF scene.image_rel # "" THEN scene.image_rel ELSE block.image_rel
        fig_id == IF block.figure_id = <<>> THEN <<"unknown">> ELSE block.figure_id
    IN  IF scene = NoScene
        THEN [st EXCEPT !.removed = Append(@, fig_id)]
        ELSE IF images_root /\ image_rel # "" /\ PathName(image_rel) \notin fs
        THEN [st EXCEPT !.removed = Append(@, fig_id)]
        ELSE [st EXCEPT !.blocks = Append(@, [block EXCEPT
                            !.image_rel = image_rel,
                            !.caption = IF scene.captioned THEN scene.caption ELSE @])]

\* the blocks of a section from number i on: new_blocks and removed grow
RECURSIVE MergeBlocks(_, _, _, _, _, _)
MergeBlocks(st, blocks, i, scenes, images_root, fs) ==
    IF i > Len(blocks) THEN st
    ELSE MergeBlocks(
             IF blocks[i].type # "figure"
             THEN [st EXCEPT !.blocks = Append(@, blocks[i])]
             ELSE MergeFigure(st, blocks[i], by_figure_get(scenes, blocks[i].figure_id),
                              images_root, fs),
             blocks, i + 1, scenes, images_root, fs)

\* section["blocks"] = new_blocks, and the next section starts with none
MergedSection(st, s, r) ==
    [st EXCEPT !.sections[s] = r.blocks, !.removed = r.removed, !.blocks = <<>>]

\* the sections from number s on
RECURSIVE MergeSections(_, _, _, _, _)
MergeSections(st, s, scenes, images_root, fs) ==
    IF s > Len(st.sections) THEN st
    ELSE MergeSections(
             MergedSection(st, s, MergeBlocks(st, st.sections[s], 1, scenes, images_root, fs)),
             s + 1, scenes, images_root, fs)

\* trace.fallbacks: the figure_id of every degraded scene from number i on,
\* once each
RECURSIVE MergeFallbacks(_, _, _)
MergeFallbacks(fallbacks, scenes, i) ==
    IF i > Len(scenes) THEN fallbacks
    ELSE MergeFallbacks(
             IF /\ scenes[i].degraded
                /\ scenes[i].figure_id # <<>>
                /\ \A k \in 1..Len(fallbacks) : fallbacks[k] # scenes[i].figure_id
             THEN Append(fallbacks, scenes[i].figure_id)
             ELSE fallbacks,
             scenes, i + 1)

\* the specification written to --out
MergedSpec(st, fallbacks) ==
    [sections |-> st.sections, fallbacks |-> fallbacks, removed_figures |-> st.removed]

merge_main(sections, scenes, images_root, fs, fallbacks) ==
    MergedSpec(MergeSections([sections |-> sections, blocks |-> <<>>, removed |-> <<>>],
                             1, scenes, images_root, fs),
               MergeFallbacks(fallbacks, scenes, 1))

merge_capture_manifest ==
    /\ call.fn = "merge"
    /\ Returns("merge_capture_manifest",
               merge_main(call.sections, call.scenes, call.images_root, files,
                          call.fallbacks))

MergeNext == merge_capture_manifest

\* scenes with an image in a directory, with a caption and no image, degraded,
\* and without a figure_id
MergeScenes ==
    { Scene(IdA, "img/a.png", FALSE),
      [Scene(IdA, "", TRUE) EXCEPT !.captioned = TRUE, !.caption = <<"y">>],
      Scene(IdB, "b.png", TRUE),
      Scene(<<>>, "a.png", TRUE) }

\* the blocks of a section: paragraphs and figures in either order
MergeSectionBlocks ==
    { <<>>,
      <<ParagraphBlock(<<"p">>, <<"x">>)>>,
      <<FigureA, ParagraphBlock(<<"p">>, <<"x">>)>>,
      <<ParagraphBlock(<<"p">>, <<"x">>), FigureB, FigureA>>,
      <<FigureB>>,
      <<FigureA, ParagraphBlock(<<"q">>, <<"y">>), FigureB>> }

MergeCalls ==
    {[fn |-> "merge", sections |-> <<s1, s2>>, scenes |-> sc, images_root |-> root,
      fallbacks |-> fb] :
        s1 \in MergeSectionBlocks, s2 \in MergeSectionBlocks,
        sc \in SeqsUpTo(MergeScenes, MaxScenes), root \in BOOLEAN,
        fb \in {<<>>, <<IdB>>}}

InitMerge ==
    \E c \in MergeCalls, fs \in SUBSET {"a.png", "b.png"} :
        /\ Loaded(Docx(<<>>, NoNumbering, {}), <<>>, NoTex, fs)
        /\ call = c
        /\ ret = NoCall

MergeSpec == InitMerge /\ [][MergeNext]_vars

(***************************************************************************)
(* Vocabulary of the properties of the block reconciler.  A block anchor   *)
(* is a paragraph whose trimmed text is exactly one block token.           *)
(***************************************************************************)
ListTypes == {"bullet_list", "numbered_list"}

SupportedTypes == {"paragraph", "bullet_list", "numbered_list", "table", "figure"}

AnchorId(e) == IF IsPara(e) THEN block_token_re_fullmatch(Strip(e.text)) ELSE <<>>

IsAnchor(e) == AnchorId(e) # <<>>

AnchorBlock(e) == block_map_get(spec, AnchorId(e))

IsListAnchor(e) ==
    IsAnchor(e) /\ AnchorBlock(e).type \in ListTypes /\ AnchorBlock(e).items # <<>>

IsTableAnchor(e) == IsAnchor(e) /\ AnchorBlock(e).type = "table"

IsUnknownAnchor(e) == IsAnchor(e) /\ AnchorBlock(e) = NoBlock

IsUnsupportedAnchor(e) ==
    IsAnchor(e) /\ AnchorBlock(e) # NoBlock /\ AnchorBlock(e).type \notin SupportedTypes

\* the number of body elements an input element is to become: the N paragraphs
\* of a list of N >= 1 items, one element otherwise
ExpectedLen(e) == IF IsListAnchor(e) THEN Len(AnchorBlock(e).items) ELSE 1

\* where the elements of input element i start in the output
OutPos(body, i) == 1 + SumSeq([j \in 1..(i - 1) |-> ExpectedLen(body[j])])

\* the output holds what the input elements are to become and nothing more
BlockLayout == Len(out.body) = OutPos(prev.body, Len(prev.body) + 1) - 1

ContainsBlockToken(t) == \E i \in 1..(Len(t) - 1) : t[i] = "B" /\ IsIdChar(t[i + 1])

AfterBlocks == last.mode = "blocks"

AfterFigures == last.mode = "figures"

(***************************************************************************)
(* C1  Token-mode idempotence: reconciling the document a run of           *)
(* sync_dynamic_from_spec produced leaves every body element as it is and  *)
(* reports changes = 0 and skipped_blocks = 0.                             *)
(***************************************************************************)
C1_TokenIdempotence ==
    AfterBlocks =>
        LET r == BlockSync(spec, out)
        IN  r.body = out.body /\ r.changes = 0 /\ r.skipped = 0

\* a second run has loaded the document a first run rewrote and saved
C1_Witness ==
    /\ AfterBlocks
    /\ prev.body # origin.body
    /\ \E i \in 1..Len(origin.body) : IsListAnchor(origin.body[i])
    /\ out.body = prev.body
    /\ report.changes = 0

(***************************************************************************)
(* C2  After sync_dynamic_from_spec no visible text of the output holds a  *)
(* MANUAL_BLOCK:<id> token pattern: no body paragraph and no cell of a     *)
(* table.                                                                  *)
(***************************************************************************)
C2_NoBlockTokenVisible ==
    AfterBlocks =>
        \A j \in 1..Len(out.body) :
            LET e == out.body[j]
            IN  IF IsPara(e) THEN ~ContainsBlockToken(e.text)
                ELSE \A r \in 1..Len(e.rows) : \A c \in 1..Len(e.rows[r]) :
                         ~ContainsBlockToken(e.rows[r][c])

(***************************************************************************)
(* C3  Token-mode list cardinality: an anchor of a list block of N >= 1    *)
(* items becomes exactly N consecutive list paragraphs whose texts are the *)
(* items in order, all with one numbering id; with no items the anchor is  *)
(* cleared and nothing is inserted.                                        *)
(***************************************************************************)
C3_ListCardinality ==
    AfterBlocks =>
        /\ BlockLayout
        /\ \A i \in 1..Len(prev.body) :
            LET e == prev.body[i]
                b == AnchorBlock(e)
                pos == OutPos(prev.body, i)
            IN  /\ IsListAnchor(e) =>
                    /\ out.body[pos].numId >= 0
                    /\ \A k \in 1..Len(b.items) :
                        /\ IsPara(out.body[pos + k - 1])
                        /\ out.body[pos + k - 1].text = b.items[k]
                        /\ out.body[pos + k - 1].numId = out.body[pos].numId
                /\ (IsAnchor(e) /\ b.type \in ListTypes /\ b.items = <<>>) =>
                    out.body[pos] = SetText(e, <<>>)

(***************************************************************************)
(* C4  Fresh restart instance per ordered list: the list of every          *)
(* reconciled numbered_list anchor carries a numbering instance id that    *)
(* the numbering definitions did not hold before, that is defined once,    *)
(* with a level-0 start override of 1, and that no paragraph outside that  *)
(* list carries.                                                           *)
(***************************************************************************)
C4_FreshRestartInstance ==
    AfterBlocks =>
        /\ BlockLayout
        /\ \A i \in 1..Len(prev.body) :
            LET e == prev.body[i]
                pos == OutPos(prev.body, i)
                n == out.body[pos].numId
                defs == {k \in 1..Len(out.numbering.nums) : out.numbering.nums[k].nid = n}
            IN  (IsListAnchor(e) /\ AnchorBlock(e).type = "numbered_list") =>
                    /\ n \notin NumIds(prev.numbering.nums)
                    /\ Cardinality(defs) = 1
                    /\ \A k \in defs : out.numbering.nums[k].start = 1
                    /\ \A j \in 1..Len(out.body) :
                        out.body[j].numId = n => j \in pos..(pos + ExpectedLen(e) - 1)

\* two numbered lists were reconciled in one run, next to a list that was there
C4_Witness ==
    /\ AfterBlocks
    /\ \E i, j \in 1..Len(prev.body) :
        /\ i < j
        /\ IsListAnchor(prev.body[i]) /\ AnchorBlock(prev.body[i]).type = "numbered_list"
        /\ IsListAnchor(prev.body[j])
    /\ prev.numbering.nums # <<>>

(***************************************************************************)
(* C5  Token-mode table: a table anchor becomes one table at its position; *)
(* the table has one header row and |R| data rows of as many cells as the  *)
(* header, a short spec row padded with empty cells and a long one cut.    *)
(***************************************************************************)
ThreeColumnNames ==
    << <<"Column", "sp", "1">>, <<"Column", "sp", "2">>, <<"Column", "sp", "3">> >>

\* the table at the position of anchor i has header `header` and the rows of block b
TableHolds(i, header) ==
    LET b == AnchorBlock(prev.body[i])
        t == out.body[OutPos(prev.body, i)]
    IN  /\ ~IsPara(t)
        /\ Len(t.rows) = 1 + Len(b.rows)
        /\ t.rows[1] = header
        /\ \A r \in 1..Len(b.rows) :
            /\ Len(t.rows[r + 1]) = Len(header)
            /\ \A c \in 1..Len(header) :
                t.rows[r + 1][c] = IF c <= Len(b.rows[r]) THEN b.rows[r][c] ELSE <<>>

\* as claimed: the header cells are the block's columns C, whatever C is
C5_TableAsClaimed ==
    AfterBlocks =>
        /\ BlockLayout
        /\ \A i \in 1..Len(prev.body) :
            IsTableAnchor(prev.body[i]) => TableHolds(i, AnchorBlock(prev.body[i]).columns)

\* amended: a block without columns gets the header Column 1, Column 2, Column 3
C5_TableWithDefaultColumns ==
    AfterBlocks =>
        /\ BlockLayout
        /\ \A i \in 1..Len(prev.body) :
            LET cols == AnchorBlock(prev.body[i]).columns
            IN  IsTableAnchor(prev.body[i]) =>
                    TableHolds(i, IF cols = <<>> THEN ThreeColumnNames ELSE cols)

\* a table was built from a row shorter and a row longer than its columns
C5_Witness ==
    /\ AfterBlocks
    /\ \E i \in 1..Len(prev.body) :
        LET b == AnchorBlock(prev.body[i])
        IN  /\ IsTableAnchor(prev.body[i])
            /\ b.columns # <<>>
            /\ \E r \in 1..Len(b.rows) : Len(b.rows[r]) < Len(b.columns)
            /\ \E r \in 1..Len(b.rows) : Len(b.rows[r]) > Len(b.columns)

(***************************************************************************)
(* Vocabulary of the properties of the figure embedder.                    *)
(***************************************************************************)
\* the figure id sync_dynamic reads from a paragraph (<<>>: none)
FigId(e) == IF IsPara(e) THEN token_re_search_id(Strip(e.text)) ELSE <<>>

FigBlock(e) == figure_map_get(spec, FigId(e))

\* the paragraph names a figure of the spec whose image file exists
Embeds(e) == FigId(e) # <<>> /\ FigBlock(e) # NoBlock /\ FigBlock(e).image_rel \in files

MissingImage(e) ==
    FigId(e) # <<>> /\ FigBlock(e) # NoBlock /\ FigBlock(e).image_rel \notin files

UnresolvedFigure(e) == FigId(e) # <<>> /\ FigBlock(e) = NoBlock

FigPos(body, i) == 1 + SumSeq([j \in 1..(i - 1) |-> IF Embeds(body[j]) THEN 2 ELSE 1])

FigRank(body, i) == Cardinality({j \in 1..i : Embeds(body[j])})

FigLayout == Len(out.body) = FigPos(prev.body, Len(prev.body) + 1) - 1

(***************************************************************************)
(* C6  Token-mode figure numbering: the captions of the figures a run of   *)
(* sync_dynamic embeds read Figure 1, Figure 2, ..., Figure k in document  *)
(* order, an unresolved token or a missing image takes no number, each     *)
(* caption is the paragraph right after its image, and the reported        *)
(* inserted count is k.                                                    *)
(***************************************************************************)
C6_FigureNumbering ==
    AfterFigures =>
        /\ FigLayout
        /\ report.inserted_blocks = FigRank(prev.body, Len(prev.body))
        /\ \A i \in 1..Len(prev.body) :
            LET e == prev.body[i]
                pos == FigPos(prev.body, i)
            IN  IF Embeds(e)
                THEN /\ out.body[pos].pic = FigBlock(e).image_rel
                     /\ out.body[pos].text = <<>>
                     /\ out.body[pos + 1].pic = ""
                     /\ out.body[pos + 1].text =
                            <<"Figure", "sp", ToString(FigRank(prev.body, i)), ".", "sp">>
                                \o FigBlock(e).caption
                ELSE out.body[pos].pic = IF FigId(e) = <<>> THEN e.pic ELSE ""

\* an embedded figure, then a token that takes no number, then an embedded figure
C6_Witness ==
    /\ AfterFigures
    /\ report.inserted_blocks = 2
    /\ \E i, j, k \in 1..Len(prev.body) :
        /\ i < j /\ j < k
        /\ Embeds(prev.body[i])
        /\ MissingImage(prev.body[j]) \/ UnresolvedFigure(prev.body[j])
        /\ Embeds(prev.body[k])

(***************************************************************************)
(* C7  Figure non-fatality: for a figure token whose image file does not   *)
(* exist, sync_dynamic clears the paragraph, embeds nothing, goes on with  *)
(* the later tokens, and counts the figure in a removed or skipped counter *)
(* that it reports.                                                        *)
(***************************************************************************)
C7_MissingFigureCounted ==
    LET missing == {i \in 1..Len(prev.body) : MissingImage(prev.body[i])}
    IN  (AfterFigures /\ missing # {}) =>
            /\ FigLayout
            /\ \A i \in missing :
                out.body[FigPos(prev.body, i)] = SetText(prev.body[i], <<>>)
            /\ \E counter \in DOMAIN report \ {"inserted_blocks"} :
                report[counter] = Cardinality(missing)

(***************************************************************************)
(* C8  Unresolved block token: an anchor whose id is not in the spec is    *)
(* cleared and nothing is inserted for it; the reported skipped_blocks is  *)
(* the number of such anchors plus the anchors of a block of unsupported   *)
(* type.                                                                   *)
(***************************************************************************)
C8_UnresolvedSkipped ==
    AfterBlocks =>
        /\ BlockLayout
        /\ \A i \in 1..Len(prev.body) :
            IsUnknownAnchor(prev.body[i]) =>
                out.body[OutPos(prev.body, i)] = SetText(prev.body[i], <<>>)
        /\ report.skipped_blocks =
            Cardinality({i \in 1..Len(prev.body) :
                            IsUnknownAnchor(prev.body[i]) \/ IsUnsupportedAnchor(prev.body[i])})

\* a run met an anchor of an unknown id and an anchor of an unsupported block
C8_Witness ==
    /\ AfterBlocks
    /\ \E i \in 1..Len(prev.body) : IsUnknownAnchor(prev.body[i])
    /\ \E i \in 1..Len(prev.body) : IsUnsupportedAnchor(prev.body[i])
    /\ report.skipped_blocks = 2

(***************************************************************************)
(* C9  Exact token matching: a paragraph whose trimmed text is not exactly *)
(* one block token is never filled with a block's content by               *)
(* sync_dynamic_from_spec, and one whose trimmed text is not exactly one   *)
(* figure token is never filled with an image by sync_dynamic.             *)
(***************************************************************************)
ExactFigId(e) == IF IsPara(e) THEN fig_token_re_fullmatch(Strip(e.text)) ELSE <<>>

ExactEmbeds(e) ==
    /\ ExactFigId(e) # <<>>
    /\ figure_map_get(spec, ExactFigId(e)) # NoBlock
    /\ figure_map_get(spec, ExactFigId(e)).image_rel \in files

ExactFigPos(body, i) ==
    1 + SumSeq([j \in 1..(i - 1) |-> IF ExactEmbeds(body[j]) THEN 2 ELSE 1])

C9_ExactTokenMatching ==
    /\ AfterBlocks =>
        /\ BlockLayout
        /\ \A i \in 1..Len(prev.body) :
            LET e == prev.body[i]
            IN  (IsPara(e) /\ ~IsAnchor(e)) =>
                    out.body[OutPos(prev.body, i)] \in {e, SetText(e, <<>>)}
    /\ AfterFigures =>
        \A i \in 1..Len(prev.body) :
            LET e == prev.body[i]
                pos == ExactFigPos(prev.body, i)
            IN  (IsPara(e) /\ ExactFigId(e) = <<>>) =>
                    /\ pos <= Len(out.body)
                    /\ out.body[pos] \in {e, SetText(e, <<>>)}

(***************************************************************************)
(* C10  Order independence of the two token passes: the block pass         *)
(* followed by the figure pass leaves the same body as the figure pass     *)
(* followed by the block pass.                                             *)
(***************************************************************************)
BlocksThenFigures(d) == FigOutput(BlockOutput(d, BlockSync(spec, d)),
                                  FigSync(spec, files, BlockOutput(d, BlockSync(spec, d))))

FiguresThenBlocks(d) == BlockOutput(FigOutput(d, FigSync(spec, files, d)),
                                    BlockSync(spec, FigOutput(d, FigSync(spec, files, d))))

C10_OrderIndependence == BlocksThenFigures(docx).body = FiguresThenBlocks(docx).body

(***************************************************************************)
(* C11  Figure token consumption: after sync_dynamic no body paragraph of  *)
(* the output has a text in which the pattern MANUAL_FIG:<id> occurs,      *)
(* whether the figure was embedded, its image was missing, or its id did   *)
(* not resolve.                                                            *)
(***************************************************************************)
ContainsFigToken(t) == \E i \in 1..(Len(t) - 1) : t[i] = "F" /\ IsIdChar(t[i + 1])

C11_FigureTokenConsumed ==
    (AfterFigures /\ ~last.aborted) =>
        \A j \in 1..Len(out.body) :
            IsPara(out.body[j]) => ~ContainsFigToken(out.body[j].text)

(***************************************************************************)
(* C12  Legacy list cardinality: sync_list_under_heading on a section      *)
(* whose list run has M >= 1 paragraphs and a target of N >= 1 items ends  *)
(* with exactly N list paragraphs in the place of the run, their texts the *)
(* items in order: N-M copies of the first list paragraph were inserted    *)
(* after the run when N > M, the last M-N paragraphs of the run were       *)
(* removed when N < M, and the elements around the run are as they were.   *)
(***************************************************************************)
C12_LegacyListCardinality ==
    ret.fn = "sync_list_under_heading" =>
        LET body == call.body
            items == call.items
            run == ListRun(body, find_heading_index(body, call.heading))
            M == Len(run)
            N == Len(items)
            r == ret.value
        IN  (M >= 1 /\ N >= 1) =>
                /\ ~r.error
                /\ Len(r.body) = Len(body) + N - M
                /\ \A i \in 1..run[1] : r.body[i] = body[i]
                /\ \A k \in 1..N :
                    /\ is_list_paragraph(r.body[run[1] + k])
                    /\ r.body[run[1] + k].text = items[k]
                    /\ r.body[run[1] + k].numId =
                           body[run[1] + (IF k <= M THEN k ELSE 1)].numId
                /\ \A i \in (run[1] + M + 1)..Len(body) : r.body[i + N - M] = body[i]

(***************************************************************************)
(* C16  Legacy heading resolution: of the headings a resolver indexes, it  *)
(* returns the position of one whose canonical text equals the canonical   *)
(* target when there is one, otherwise the position of the first heading   *)
(* in document order whose canonical text contains the target or is part   *)
(* of it, otherwise none; duplicates of a canonical text included.  This   *)
(* holds for find_heading_index and for find_heading_index_fuzzy over      *)
(* find_heading_indices.                                                   *)
(***************************************************************************)
Resolves(key, target, result) ==
    LET H == DOMAIN key
        exact == {i \in H : key[i] = target}
        fuzzy == {i \in H : Contains(key[i], target) \/ Contains(target, key[i])}
    IN  IF exact # {} THEN result \in exact
        ELSE IF fuzzy # {} THEN result = FirstIndex(fuzzy)
        ELSE result = NoIndex

C16_HeadingResolution ==
    /\ ret.fn = "find_heading_index" =>
        Resolves([i \in {i \in 0..(Len(call.body) - 1) :
                            /\ IsPara(call.body[i + 1])
                            /\ is_heading_paragraph(call.body[i + 1])
                            /\ paragraph_text(call.body[i + 1]) # <<>>} |->
                     canonical(paragraph_text(call.body[i + 1]))],
                 canonical(call.heading), ret.value)
    /\ ret.fn = "find_heading_index_fuzzy" =>
        Resolves([i \in {i \in 0..(Len(Paragraphs(call.body)) - 1) :
                            /\ get_heading_level(Paragraphs(call.body)[i + 1]) # 0
                            /\ fig_canonical(ParagraphText(Paragraphs(call.body)[i + 1])) # <<>>} |->
                     fig_canonical(ParagraphText(Paragraphs(call.body)[i + 1]))],
                 fig_canonical(call.heading), ret.value)

(***************************************************************************)
(* C17  Section boundary: for a heading at position s of level L the       *)
(* section ends right before the next heading after s whose level is <= L, *)
(* deeper headings passed over, or with the last element when there is     *)
(* none.  find_section_end_index returns that position among the           *)
(* paragraphs; section_end_index returns the position after it among the   *)
(* body's elements (its callers slice up to it).                           *)
(***************************************************************************)
SectionEnd(elems, s) ==
    LET stops == {j \in (s + 1)..(Len(elems) - 1) :
                     /\ get_heading_level(elems[j + 1]) # 0
                     /\ get_heading_level(elems[j + 1]) <= get_heading_level(elems[s + 1])}
    IN  IF stops = {} THEN Len(elems) - 1 ELSE FirstIndex(stops) - 1

C17_SectionBoundary ==
    /\ ret.fn = "find_section_end_index" =>
        ret.value = SectionEnd(Paragraphs(call.body),
                               Len(Paragraphs(SubSeq(call.body, 1, call.start_idx))))
    /\ ret.fn = "section_end_index" =>
        ret.value - 1 = SectionEnd(call.body, call.start_idx)

(***************************************************************************)
(* C18  Canonicalization ignores manual numbering: for every title t and   *)
(* every leading enumeration p (digits, dot-separated or not, with or      *)
(* without a last dot and white space) canonical(p + t) = canonical(t), in *)
(* the figure reconciler's canonical and in the text reconciler's.         *)
(***************************************************************************)
NumberPrefixes ==
    { <<"4">>, <<"4", ".">>, <<"4", ".", "2">>, <<"4", ".", "2", ".", "sp">>,
      <<"4", "2", "sp", "sp">> }

C18_CanonicalIgnoresNumbering ==
    /\ ret.fn = "canonical" =>
        \A p \in NumberPrefixes : canonical(p \o call.text) = ret.value
    /\ ret.fn = "fig_canonical" =>
        \A p \in NumberPrefixes : fig_canonical(p \o call.text) = ret.value

(***************************************************************************)
(* C19  Non-restart allocation: ensure_num_id_for_format(kind, restart =   *)
(* false) never returns an instance of a bullet definition whose glyph is  *)
(* blank or white space; when an instance references the first definition  *)
(* of the kind (blank bullets passed over), it returns the first such      *)
(* instance and leaves the numbering definitions as they were.             *)
(***************************************************************************)
BlankBullet(a) == a.fmt = "bullet" /\ a.lvl_text \in {"", "sp"}

C19_NonRestartReuse ==
    (ret.fn = "ensure_num_id_for_format" /\ ~call.restart) =>
        LET abs == call.numbering.abs
            nums == call.numbering.nums
            now == ret.value.numbering
            ofKind == {i \in 1..Len(abs) : abs[i].fmt = call.num_fmt /\ ~BlankBullet(abs[i])}
            insts == IF ofKind = {} THEN {}
                     ELSE {j \in 1..Len(nums) : nums[j].abs = abs[FirstIndex(ofKind)].aid}
        IN  /\ \A j \in 1..Len(now.nums) : \A i \in 1..Len(now.abs) :
                (now.nums[j].nid = ret.value.id /\ now.abs[i].aid = now.nums[j].abs) =>
                    (now.abs[i].fmt = call.num_fmt /\ ~BlankBullet(now.abs[i]))
            /\ insts # {} =>
                /\ ret.value.id = nums[FirstIndex(insts)].nid
                /\ now = call.numbering

\* a visible bullet definition behind a blank one, both with an instance: the
\* instance of the visible one was returned and nothing was added
C19_Witness ==
    /\ ret.fn = "ensure_num_id_for_format"
    /\ ~call.restart
    /\ call.num_fmt = "bullet"
    /\ Len(call.numbering.abs) = 2
    /\ BlankBullet(call.numbering.abs[1])
    /\ Len(call.numbering.nums) = 2
    /\ call.numbering.nums[1].abs = call.numbering.abs[1].aid
    /\ call.numbering.nums[2].abs = call.numbering.abs[2].aid
    /\ ret.value.id = call.numbering.nums[2].nid
    /\ ret.value.numbering = call.numbering

(***************************************************************************)
(* Vocabulary of the properties of legacy mode.                            *)
(***************************************************************************)
AfterLegacy == last.mode = "legacy" /\ ~last.aborted

AfterLegacyFigures == last.mode = "legacy_figures" /\ ~last.aborted

\* the positions (from 1) of the list paragraphs between the heading the title
\* resolves to and the next heading
SectionLists(body, title) ==
    LET idx == find_heading_index(body, <<title>>)
    IN  IF idx = NoIndex THEN {}
        ELSE {j \in (idx + 2)..section_end_index(body, idx) :
                 IsPara(body[j]) /\ is_list_paragraph(body[j])}

SectionNumIds(body, title) == {body[j].numId : j \in SectionLists(body, title)}

\* the list of the section counts from 1: its instance is defined and either
\* has a start override of 1 or numbers no list paragraph before the section
StartsAtOne(d, title, n) ==
    /\ \E k \in 1..Len(d.numbering.nums) :
          /\ d.numbering.nums[k].nid = n
          /\ \/ d.numbering.nums[k].start = 1
             \/ \A j \in 1..Len(d.body) :
                    (\A i \in SectionLists(d.body, title) : j < i) => d.body[j].numId # n

(***************************************************************************)
(* C13  Legacy numbering restart: after legacy_main the ordered lists      *)
(* under Flow A and under Flow B carry one numbering instance id each, the *)
(* two ids differ, and each instance exists in the numbering definitions   *)
(* and starts at 1, whatever decimal instances the document had.           *)
(***************************************************************************)
C13_LegacyNumberingRestart ==
    AfterLegacy =>
        LET a == SectionNumIds(out.body, FlowA)
            b == SectionNumIds(out.body, FlowB)
        IN  (a # {} /\ b # {}) =>
                /\ Cardinality(a) = 1
                /\ Cardinality(b) = 1
                /\ a \cap b = {}
                /\ \A n \in a : StartsAtOne(out, FlowA, n)
                /\ \A n \in b : StartsAtOne(out, FlowB, n)

(***************************************************************************)
(* C14  Legacy text-mode idempotence: legacy_main run on the document a    *)
(* run of legacy_main produced leaves the body as it is (same elements,    *)
(* texts and order) and reports changes = 0.                               *)
(***************************************************************************)
C14_LegacyIdempotence ==
    AfterLegacy =>
        LET r == LegacySync(tex, out)
        IN  ~r.error /\ r.body = out.body /\ r.changed = 0

(***************************************************************************)
(* C15  Legacy figure-mode convergence: after every run of sync_legacy,    *)
(* first or repeated, the document holds exactly one image paragraph and   *)
(* one caption paragraph per shot the run embedded, whether or not the     *)
(* document defines a caption style.                                       *)
(***************************************************************************)
ImageCount(body) == Cardinality({j \in 1..Len(body) : body[j].pic # ""})

CaptionCount(body) ==
    Cardinality({j \in 1..Len(body) :
                    \E n \in 1..Len(tex.shots) :
                        body[j].text = FigureLabel(n) \o tex.shots[n].caption})

C15_LegacyFigureConvergence ==
    AfterLegacyFigures =>
        /\ ImageCount(out.body) = report.inserted_blocks
        /\ CaptionCount(out.body) = report.inserted_blocks

(***************************************************************************)
(* C20  All-or-nothing persistence: a run writes the document at most      *)
(* once, and what it writes is the result of all its steps; a run that     *)
(* aborts (missing document body, unreadable archive) writes nothing: the  *)
(* document on disk is as it was.                                          *)
(***************************************************************************)
C20_AllOrNothing ==
    [][/\ docx' \in {docx, out'}
       /\ last'.aborted => (docx' = docx /\ ~last'.saved)
       /\ docx' # docx => last'.saved]_vars

\* a run on a document without a body aborted and left the document alone
C20_Witness ==
    /\ last.aborted
    /\ docx.archive = "nobody"
    /\ docx = origin
    /\ report = [error |-> TRUE]

(***************************************************************************)
(* C21  Legacy mode never raises for missing structure: on a document that *)
(* has a body legacy_main runs to completion, whatever headings, lists and *)
(* tables the body holds and however many items were parsed, a list at the *)
(* very end of the body included.                                          *)
(***************************************************************************)
C21_LegacyNeverRaises ==
    (last.mode = "legacy" /\ docx.archive = "ok") => ~last.aborted

(***************************************************************************)
(* Vocabulary of the properties of the manifest merge.                     *)
(***************************************************************************)
AfterMerge == ret.fn = "merge_capture_manifest"

\* some scene of the manifest carries the figure_id
HasScene(fid) ==
    \E i \in 1..Len(call.scenes) :
        call.scenes[i].figure_id # <<>> /\ call.scenes[i].figure_id = fid

\* the image reference of a figure: the one of its scene, else its own
ImageRef(block) ==
    LET own == {i \in 1..Len(call.scenes) : call.scenes[i].figure_id = block.figure_id}
        ref == IF own = {} THEN "" ELSE call.scenes[MaxOf(own, 0)].image_rel
    IN  IF ref # "" THEN ref ELSE block.image_rel

\* the file of the image reference does not exist
ImageMissing(block) == PathName(ImageRef(block)) \notin files

\* the figure cannot be rendered, as the claim reads it
UnrenderableAsClaimed(block) ==
    block.type = "figure" /\ (~HasScene(block.figure_id) \/ ImageMissing(block))

\* the figure cannot be rendered, as the merge can tell: the image file is
\* looked for only when an images root is given and a reference exists
Unrenderable(block) ==
    /\ block.type = "figure"
    /\ \/ ~HasScene(block.figure_id)
       \/ call.images_root /\ ImageRef(block) # "" /\ ImageMissing(block)

\* the blocks of all sections, in order
RECURSIVE AllBlocks(_)
AllBlocks(sections) ==
    IF sections = <<>> THEN <<>> ELSE Head(sections) \o AllBlocks(Tail(sections))

BlockIds(blocks) == [i \in 1..Len(blocks) |-> blocks[i].block_id]

FigureIds(blocks) == [i \in 1..Len(blocks) |-> blocks[i].figure_id]

(***************************************************************************)
(* C22 as claimed  The merge removes a figure block from its section       *)
(* exactly when its figure_id has no scene or its image file is missing,   *)
(* records every removed figure in trace.removed_figures and keeps the     *)
(* other blocks in order.                                                  *)
(***************************************************************************)
C22_MergeAsClaimed ==
    AfterMerge =>
        LET Kept(b) == ~UnrenderableAsClaimed(b)
        IN  /\ \A s \in 1..Len(call.sections) :
                   BlockIds(ret.value.sections[s])
                       = BlockIds(SelectSeq(call.sections[s], Kept))
            /\ ret.value.removed_figures
                   = FigureIds(SelectSeq(AllBlocks(call.sections), UnrenderableAsClaimed))

(***************************************************************************)
(* C22  The merge removes a figure block from its section exactly when its *)
(* figure_id has no scene in the manifest or, an images root being given   *)
(* and the figure having an image reference, no file with the base name of *)
(* that reference exists under the root.  It records the figure_id of      *)
(* every removed figure in trace.removed_figures, keeps every other block  *)
(* in its original relative order with its text, never removes a figure    *)
(* because its scene is degraded, and ends with every section written.     *)
(***************************************************************************)
C22_MergeDropsUnrenderable ==
    AfterMerge =>
        LET Kept(b) == ~Unrenderable(b)
            Plain(b) == b.type # "figure"
        IN  /\ Len(ret.value.sections) = Len(call.sections)
            /\ \A s \in 1..Len(call.sections) :
                   /\ BlockIds(ret.value.sections[s])
                          = BlockIds(SelectSeq(call.sections[s], Kept))
                   /\ SelectSeq(ret.value.sections[s], Plain)
                          = SelectSeq(call.sections[s], Plain)
            /\ ret.value.removed_figures
                   = FigureIds(SelectSeq(AllBlocks(call.sections), Unrenderable))
            /\ \A s \in 1..Len(call.sections) : \A i \in 1..Len(call.sections[s]) :
                   LET b == call.sections[s][i]
                   IN  (b.type = "figure" /\ HasScene(b.figure_id)
                            /\ (~call.images_root \/ ~ImageMissing(b)))
                           => \E k \in 1..Len(ret.value.sections[s]) :
                                  ret.value.sections[s][k].block_id = b.block_id

\* one figure is removed for its missing file although another, whose scene is
\* degraded, is kept, and a third has no scene
C22_Witness ==
    /\ AfterMerge
    /\ call.images_root
    /\ \E s \in 1..2 : \E i \in 1..Len(call.sections[s]) :
           LET b == call.sections[s][i]
           IN  /\ b.type = "figure" /\ HasScene(b.figure_id) /\ ImageMissing(b)
               /\ b.figure_id \in {ret.value.removed_figures[k] :
                                      k \in 1..Len(ret.value.removed_figures)}
    /\ \E s \in 1..2 : \E k \in 1..Len(ret.value.sections[s]) :
           LET b == ret.value.sections[s][k]
           IN  /\ b.type = "figure"
               /\ by_figure_get(call.scenes, b.figure_id).degraded
    /\ \E s \in 1..2 : \E k \in 1..Len(ret.value.sections[s]) :
           ret.value.sections[s][k].type = "paragraph"

(***************************************************************************)
(* Vocabulary of the properties of the legacy figure tails.                *)
(***************************************************************************)
\* where in the body prev the anchor of shot number n resolves, NoIndex if not
ShotHeading(n) ==
    find_heading_index_fuzzy(find_heading_indices(prev.body),
                             fig_canonical(<<ShotAnchor(n)>>))

\* shot number n was placed: its image exists and its anchor resolves
ShotPlaced(n) == tex.shots[n].img_rel \in files /\ ShotHeading(n) # NoIndex

\* the computed end of the section of shot number n, a position of prev.body
ShotSectionEnd(n) ==
    LET level == get_heading_level(Paragraphs(prev.body)[ShotHeading(n) + 1])
    IN  ParagraphPosition(prev.body,
                          find_section_end_index(prev.body, ShotHeading(n),
                                                 IF level = 0 THEN 1 ELSE level))

ShotCaption(n) == CaptionPara(n, tex.shots[n].caption, docx.styles)

\* the paragraphs the run put into the body: images and the captions of shots
PutByRun(e) ==
    IsPara(e) /\ (e.pic # "" \/ \E n \in 1..Len(tex.shots) : e = ShotCaption(n))

KeptFromInput(e) == ~PutByRun(e)

\* the earlier placed shots under the anchor of shot number n
EarlierUnderAnchor(n) ==
    {m \in 1..(n - 1) : ShotAnchor(m) = ShotAnchor(n) /\ ShotPlaced(m)}

(***************************************************************************)
(* C23  Legacy tail tracking: every placed shot is an image paragraph      *)
(* directly followed by its caption.  The first shot placed under an       *)
(* anchor stands directly after the computed end of the anchor's section,  *)
(* as the body was when the shot was placed (what lies before the image in *)
(* the output is, the paragraphs of the run aside, the input up to that    *)
(* section end); each later shot of the anchor stands directly after the   *)
(* caption of the previous one, so the shots of one anchor read image,     *)
(* caption, image, caption in parse order.                                 *)
(***************************************************************************)
C23_TailTracking ==
    (AfterLegacyFigures /\ prev = origin) =>
        \A n \in 1..Len(tex.shots) :
            ShotPlaced(n) =>
                \E k \in 2..Len(out.body) :
                    /\ out.body[k] = ShotCaption(n)
                    /\ out.body[k - 1] = ImagePara(tex.shots[n].img_rel)
                    /\ \A j \in 1..Len(out.body) : out.body[j] = ShotCaption(n) => j = k
                    /\ IF EarlierUnderAnchor(n) # {}
                       THEN /\ k > 2
                            /\ out.body[k - 2] = ShotCaption(MaxOf(EarlierUnderAnchor(n), 0))
                       ELSE SelectSeq(SubSeq(out.body, 1, k - 2), KeptFromInput)
                                = SubSeq(prev.body, 1, ShotSectionEnd(n))

\* the fifth and the sixth shot were both placed under Flow A, after a shot
\* placed before the Flow A heading
C23_Witness ==
    /\ AfterLegacyFigures
    /\ prev = origin
    /\ Len(tex.shots) >= 6
    /\ ShotPlaced(5)
    /\ ShotPlaced(6)
    /\ \E n \in 1..4 : ShotPlaced(n) /\ ShotHeading(n) < ShotHeading(5)
    /\ \E k \in 4..Len(out.body) :
           /\ out.body[k] = ShotCaption(6)
           /\ out.body[k - 2] = ShotCaption(5)

(***************************************************************************)
(* Vocabulary of the properties of the heading numbers.                    *)
(***************************************************************************)
AfterEnforce == ret.fn = "enforce_heading_numbers"

\* the headings of a body that carry a section number
NumberedHeadings(body) ==
    {i \in 1..Len(body) :
        IsPara(body[i]) /\ is_heading_paragraph(body[i]) /\ body[i].num # <<>>}

(***************************************************************************)
(* C24  Heading number enforcement: after enforce_heading_numbers every    *)
(* fixed title that resolves to a heading has that heading's runs equal to *)
(* the section-number run with the title's number, the tab and the title   *)
(* run holding the title alone; no two headings carry the same section     *)
(* number; a second application reports 0 changes.                         *)
(***************************************************************************)
C24_HeadingNumbers ==
    AfterEnforce =>
        /\ \A k \in 1..Len(Targets) :
               LET idx == find_heading_index(ret.value.body, <<Targets[k].title>>)
               IN  idx # NoIndex =>
                       /\ ret.value.body[idx + 1].num = Targets[k].num
                       /\ ret.value.body[idx + 1].text = <<Targets[k].title>>
                       /\ ret.value.body[idx + 1].style = HeadingStyle(Targets[k].level)
        /\ \A i, j \in NumberedHeadings(ret.value.body) :
               ret.value.body[i].num = ret.value.body[j].num => i = j
        /\ ret.runs = 2 => ret.value.changed = 0

(***************************************************************************)
(* Vocabulary of the properties of the missing sections.                   *)
(***************************************************************************)
\* the headings (positions from 1) whose title run holds the title
HeadingsTitled(body, title) ==
    {i \in 1..Len(body) :
        /\ IsPara(body[i])
        /\ is_heading_paragraph(body[i])
        /\ canonical(body[i].text) = canonical(<<title>>)}

\* the positions (from 1) of the tables between the heading the title resolves
\* to and the next heading
SectionTables(body, title) ==
    LET idx == find_heading_index(body, <<title>>)
    IN  IF idx = NoIndex THEN {}
        ELSE {j \in (idx + 2)..section_end_index(body, idx) : ~IsPara(body[j])}

HasListTemplate(body) == \E i \in 1..Len(body) : IsPara(body[i]) /\ is_list_paragraph(body[i])

HasTableTemplate(body) == \E i \in 1..Len(body) : ~IsPara(body[i])

Present(body, title) == HeadingsTitled(body, title) # {}

(***************************************************************************)
(* C25  Missing fixed sections: after legacy_main on a document that has   *)
(* the anchor sibling and a list and a table template, each of Left        *)
(* Navigation, Home Feed Video Card, Flow B, Maintenance Notes and Build   *)
(* that was absent is present exactly once; the list under Flow A and the  *)
(* table under Top Navigation, the siblings after which sections are       *)
(* placed, are still under their own headings; and no run leaves one of    *)
(* these titles on two headings.                                           *)
(***************************************************************************)
C25_MissingSections ==
    AfterLegacy =>
        /\ \A title \in {LeftNavigation, "Home Feed Video Card", FlowB,
                         "Maintenance Notes", "Build"} :
               /\ Cardinality(HeadingsTitled(prev.body, title)) <= 1
                      => Cardinality(HeadingsTitled(out.body, title)) <= 1
        /\ (HasListTemplate(prev.body) /\ HasTableTemplate(prev.body)) =>
               /\ Present(prev.body, "Top Navigation")
                      => /\ Cardinality(HeadingsTitled(out.body, LeftNavigation)) = 1
                         /\ Cardinality(HeadingsTitled(out.body, "Home Feed Video Card")) = 1
               /\ Present(prev.body, FlowA)
                      => /\ Cardinality(HeadingsTitled(out.body, FlowB)) = 1
                         /\ Cardinality(HeadingsTitled(out.body, "Maintenance Notes")) = 1
                         /\ Cardinality(HeadingsTitled(out.body, "Build")) = 1
               /\ (Present(prev.body, FlowA) /\ SectionLists(prev.body, FlowA) # {})
                      => SectionLists(out.body, FlowA) # {}
               /\ (Present(prev.body, "Top Navigation")
                       /\ SectionTables(prev.body, "Top Navigation") # {})
                      => SectionTables(out.body, "Top Navigation") # {}

(***************************************************************************)
(* C26  Frame of the legacy list reconciler: sync_list_under_heading       *)
(* leaves every element outside the list run under the resolved heading as *)
(* it was and where it was relative to the others: the body it returns is  *)
(* the elements before the run, list paragraphs only, and the elements     *)
(* after the run (headings, tables, paragraphs of this and of the other    *)
(* sections), for every length of the run and every number of items.       *)
(***************************************************************************)
C26_ListFrame ==
    (ret.fn = "sync_list_under_heading" /\ ~ret.value.error) =>
        LET body == call.body
            run == ListRun(body, find_heading_index(body, call.heading))
            before == IF run = <<>> THEN body ELSE SubSeq(body, 1, run[1])
            after == IF run = <<>> THEN <<>>
                     ELSE SubSeq(body, run[Len(run)] + 2, Len(body))
            r == ret.value.body
        IN  /\ Len(r) >= Len(before) + Len(after)
            /\ SubSeq(r, 1, Len(before)) = before
            /\ SubSeq(r, Len(r) - Len(after) + 1, Len(r)) = after
            /\ \A i \in (Len(before) + 1)..(Len(r) - Len(after)) :
                   IsPara(r[i]) /\ is_list_paragraph(r[i])

(***************************************************************************)
(* C27  Frame of the legacy section rewrite: enforce_section_lists_and_    *)
(* build keeps every heading of the body, in order, and the section        *)
(* properties that close the body: they are still the last child after the *)
(* rewrite, also when Build is the last section.                           *)
(***************************************************************************)
C27_SectionRewriteFrame ==
    (ret.fn = "enforce_section_lists_and_build" /\ ~ret.value.error) =>
        LET IsHeading(e) == IsPara(e) /\ is_heading_paragraph(e)
            r == ret.value.body
        IN  /\ SelectSeq(r, IsHeading) = SelectSeq(call.body, IsHeading)
            /\ r # <<>>
            /\ r[Len(r)] = SectPr

(***************************************************************************)
(* C28  Cleanup never destroys reconciled content: after                   *)
(* sync_dynamic_from_spec the paragraph of an anchor resolved to a         *)
(* paragraph block holds the text of the block, and the paragraphs of an   *)
(* anchor resolved to a list block hold its items, whatever the text and   *)
(* the items are, a text that holds a MANUAL_BLOCK:<id> pattern included.  *)
(***************************************************************************)
C28_CleanupKeepsContent ==
    AfterBlocks =>
        \A i \in 1..Len(prev.body) :
            LET e == prev.body[i]
                b == AnchorBlock(e)
                pos == OutPos(prev.body, i)
            IN  /\ (IsAnchor(e) /\ b.type = "paragraph") =>
                       /\ pos <= Len(out.body)
                       /\ out.body[pos].text = b.text
                /\ IsListAnchor(e) =>
                       \A k \in 1..Len(b.items) :
                           /\ pos + k - 1 <= Len(out.body)
                           /\ out.body[pos + k - 1].text = b.items[k]

(***************************************************************************)
(* C29  Frame of the token reconciler: every paragraph of the input whose  *)
(* text holds no MANUAL_BLOCK token pattern (a figure-token paragraph      *)
(* included) and every table of the input is in the output as it was, and  *)
(* these elements keep their order; the output holds nothing else but what *)
(* the token paragraphs became, each at the position of its token          *)
(* paragraph.                                                              *)
(***************************************************************************)
C29_TokenFrame ==
    AfterBlocks =>
        LET Untouched(e) == ~IsPara(e) \/ ~ContainsBlockToken(e.text)
        IN  /\ BlockLayout
            /\ \A i \in 1..Len(prev.body) :
                   Untouched(prev.body[i]) =>
                       out.body[OutPos(prev.body, i)] = prev.body[i]

\* the items of a list were put in the place of its token paragraph, next to a
\* paragraph with text that stayed as it was
C29_Witness ==
    /\ AfterBlocks
    /\ Len(out.body) > Len(prev.body)
    /\ \E i \in 1..Len(prev.body) :
           IsListAnchor(prev.body[i]) /\ Len(AnchorBlock(prev.body[i]).items) > 1
    /\ \E i \in 1..Len(prev.body) :
           /\ IsPara(prev.body[i])
           /\ ~IsAnchor(prev.body[i])
           /\ prev.body[i].text # <<>>
           /\ out.body[OutPos(prev.body, i)] = prev.body[i]

(***************************************************************************)
(* Vocabulary of the properties of the numbering identifiers.              *)
(***************************************************************************)
DistinctNumIds(n) == \A i, j \in 1..Len(n.nums) : n.nums[i].nid = n.nums[j].nid => i = j

DistinctAbsIds(n) == \A i, j \in 1..Len(n.abs) : n.abs[i].aid = n.abs[j].aid => i = j

InstancesDefined(n) == \A i \in 1..Len(n.nums) : n.nums[i].abs \in AbsIds(n.abs)

(***************************************************************************)
(* C30  Numbering identifier uniqueness: on numbering definitions whose    *)
(* instance ids and abstract ids are pairwise distinct and whose instances *)
(* reference definitions that exist, after every sequence of               *)
(* ensure_num_id_for_format calls of any kind with any restart flag the    *)
(* instance ids are pairwise distinct, the abstract ids are pairwise       *)
(* distinct, every instance references an abstract definition that exists, *)
(* and the id a call returns is the id of an instance.                     *)
(***************************************************************************)
C30_NumberingIdsUnique ==
    (call.fn = "numbering" /\ DistinctNumIds(call.numbering)
         /\ DistinctAbsIds(call.numbering) /\ InstancesDefined(call.numbering)
         /\ ret # NoCall) =>
        /\ DistinctNumIds(ret.value.numbering)
        /\ DistinctAbsIds(ret.value.numbering)
        /\ InstancesDefined(ret.value.numbering)
        /\ ret.value.id \in NumIds(ret.value.numbering.nums)

\* three calls added a definition and two instances to definitions that held
\* instances before
C30_Witness ==
    /\ call.fn = "numbering"
    /\ ret # NoCall
    /\ ret.calls = 3
    /\ call.numbering.nums # <<>>
    /\ Len(ret.value.numbering.abs) > Len(call.numbering.abs)
    /\ Len(ret.value.numbering.nums) >= Len(call.numbering.nums) + 2

====
